---------------------------- MODULE Spec2Model ----------------------------
(***************************************************************************)
(* Model of the transactional key-value layer of src/src/dbwrapper.h:      *)
(* CDBWrapper (the adapter), CDBBatch, CDBTransaction (the overlay) and    *)
(* CDBTransactionIterator (the merge iterator).                            *)
(*                                                                         *)
(* Keys are byte strings (CDataStream), ordered by DataStreamCmp.  Values  *)
(* are typed; the adapter stores their serialized bytes XORed with the     *)
(* obfuscation key, an overlay stores them in a typed ValueHolderImpl<V>.  *)
(*                                                                         *)
(* CFlatDB of src/src/flatdatabase.h, one object kept in one checksummed   *)
(* file, is modelled beside it with variables of its own.                  *)
(***************************************************************************)
EXTENDS Integers, Sequences, FiniteSets, TLC

VARIABLES
    db,             \* CDBWrapper: key bytes -> stored (obfuscated) value bytes
    obfuscate_key,  \* CDBWrapper::obfuscate_key
    batch,          \* CDBBatch: the staged put/delete entries, in order
    commitTarget,   \* per constructed overlay: CDBTransaction::commitTarget
    writes,         \* per overlay: CDBTransaction::writes
    deletes,        \* per overlay: CDBTransaction::deletes
    memoryUsage,    \* per overlay: CDBTransaction::memoryUsage (ssize_t)
    itTop,          \* the overlay the open merge iterator belongs to, or NoIter
    transactionIt,  \* per overlay of the iterator chain: transactionIt
    parentKey,      \* per overlay of the iterator chain: parentKey
    curIsParent,    \* per overlay of the iterator chain: curIsParent
    piter,          \* CDBIterator: position of the adapter's cursor
    assertFailed,   \* an assert of the merge iterator has failed
    itFrom,         \* the key the traversal was started at (NoKey: SeekToFirst)
    yielded,        \* the keys a traversal loop has collected with GetKey()
    it2,            \* the merge iterator of a second reader, and what it collected
    nextCalls,      \* the Next() calls made while Valid() held, since the last seek
    file,           \* CFlatDB: the bytes of the file at pathDB, or NoFile
    objToLoad,      \* CFlatDB: the caller's object that Load reads into
    tmpObjToLoad,   \* CFlatDB: the caller's scratch object of Dump's dry-run read
    erased,         \* history: per overlay, keys erased with no Write since
    cleared,        \* history: per overlay, the keys of erased a Clear came after
    last            \* history: the operation performed last

overlayVars == <<db, obfuscate_key, batch, commitTarget, writes, deletes, memoryUsage>>
iterVars == <<itTop, transactionIt, parentKey, curIsParent, piter, assertFailed, itFrom, yielded,
              it2, nextCalls>>
flatVars == <<file, objToLoad, tmpObjToLoad>>
vars == <<db, obfuscate_key, batch, commitTarget, writes, deletes, memoryUsage,
          itTop, transactionIt, parentKey, curIsParent, piter, assertFailed, itFrom, yielded,
          it2, nextCalls, file, objToLoad, tmpObjToLoad, erased, cleared, last>>

-----------------------------------------------------------------------------
(* Stores.  An overlay's Parent is fixed by its template instantiation.    *)

DB == "CDBWrapper"
BATCH == "CDBBatch"
Overlays == {"tx1", "tx2", "tx3"}

\* CDBTransaction::parent of each overlay: tx1 over the adapter, tx2 over tx1, ...
Parent == [i \in Overlays |-> CASE i = "tx1" -> DB [] i = "tx2" -> "tx1" [] i = "tx3" -> "tx2"]

\* the overlays that exist in a run: those given a commit target at construction
Layers == DOMAIN commitTarget

-----------------------------------------------------------------------------
(* Bounds and inputs *)

\* the most entries a CDBBatch is let to stage before it is written
MaxBatch == 2

\* the counter values GetMemoryUsage is applied to: -MaxCounter..MaxCounter
MaxCounter == 3

\* the most bytes the file of a CFlatDB holds, and the greatest byte
MaxFileSize == 4
MaxByte == 2

Keys == {<<1, 2>>, <<2>>}
Types == {"uint8_t", "uint16_t"}
Values == {[type |-> "uint8_t", value |-> 7], [type |-> "uint16_t", value |-> 258]}
ObfuscateKey == <<165, 90>>

-----------------------------------------------------------------------------
(* Byte strings *)

EmptyMap == [x \in {} |-> 0]
MapPut(m, k, v) == [x \in (DOMAIN m) \cup {k} |-> IF x = k THEN v ELSE m[x]]
MapDel(m, k) == [x \in (DOMAIN m) \ {k} |-> m[x]]

\* DataStreamCmp::less: std::lexicographical_compare over the bytes
RECURSIVE less(_, _)
less(a, b) ==
    IF b = <<>> THEN FALSE
    ELSE IF a = <<>> THEN TRUE
    ELSE IF Head(a) < Head(b) THEN TRUE
    ELSE IF Head(b) < Head(a) THEN FALSE
    ELSE less(Tail(a), Tail(b))

\* the least key of a non-empty set under DataStreamCmp
MinKey(S) == CHOOSE k \in S : \A x \in S : ~less(x, k)

\* a std::map / std::set in iteration order
RECURSIVE SortKeys(_)
SortKeys(S) == IF S = {} THEN <<>> ELSE <<MinKey(S)>> \o SortKeys(S \ {MinKey(S)})

\* the bytes of the keys of S together: the sum of ssKey.size()
RECURSIVE KeyBytes(_)
KeyBytes(S) == IF S = {} THEN 0 ELSE Len(MinKey(S)) + KeyBytes(S \ {MinKey(S)})

\* a ^ b on bytes
RECURSIVE BitXor(_, _)
BitXor(a, b) ==
    IF a = 0 /\ b = 0 THEN 0
    ELSE (((a % 2) + (b % 2)) % 2) + 2 * BitXor(a \div 2, b \div 2)

\* CDataStream::Xor: XOR the key, repeated, over the bytes; an empty key does nothing
Xor(bytes, key) ==
    IF Len(key) = 0 THEN bytes
    ELSE [n \in 1..Len(bytes) |-> BitXor(bytes[n], key[((n - 1) % Len(key)) + 1])]

\* operator<< of a typed value: fixed-width little-endian integers
Serialize(v) ==
    IF v.type = "uint8_t" THEN <<v.value % 256>>
    ELSE <<v.value % 256, (v.value \div 256) % 256>>

GetSerializeSize(v) == Len(Serialize(v))

\* operator>> into a V: throws (ok = FALSE) when the stream ends early
Unserialize(T, bytes) ==
    IF T = "uint8_t"
    THEN IF Len(bytes) >= 1 THEN [ok |-> TRUE, value |-> bytes[1]]
         ELSE [ok |-> FALSE, value |-> 0]
    ELSE IF Len(bytes) >= 2 THEN [ok |-> TRUE, value |-> bytes[1] + 256 * bytes[2]]
         ELSE [ok |-> FALSE, value |-> 0]

-----------------------------------------------------------------------------
(* Results of a typed Read: returned true with a value, returned false, or  *)
(* left by an exception.                                                    *)

RetTrue(v) == [ret |-> "true", value |-> v]
RetFalse == [ret |-> "false", value |-> 0]
Throw == [ret |-> "throw", value |-> 0]

\* no overlay / no iterator
NoIter == "none"
\* the position past the last entry: writes.end(), an invalid CDBIterator
End == <<-1>>
\* an empty CDataStream
NoKey == <<>>

-----------------------------------------------------------------------------
(* The adapter and the write batch *)

PutEntry(k, bytes) == [op |-> "put", key |-> k, value |-> bytes]
DelEntry(k) == [op |-> "del", key |-> k, value |-> <<>>]

\* CDBBatch::WriteImpl: obfuscate the serialized value and stage a put
WriteImpl(b, k, ssValue) == Append(b, PutEntry(k, Xor(ssValue, obfuscate_key)))

\* CDBBatch::EraseImpl: stage a delete
EraseImpl(b, k) == Append(b, DelEntry(k))

\* CDBBatch::Write: serialize the value, hand it to WriteImpl
BatchWrite(b, k, v) == WriteImpl(b, k, Serialize(v))

\* CDBBatch::Erase
BatchErase(b, k) == EraseImpl(b, k)

\* CDBWrapper::WriteBatch: every staged entry lands, in order, in one step
RECURSIVE WriteBatch(_, _)
WriteBatch(d, b) ==
    IF b = <<>> THEN d
    ELSE WriteBatch(IF Head(b).op = "put" THEN MapPut(d, Head(b).key, Head(b).value)
                    ELSE MapDel(d, Head(b).key),
                    Tail(b))

\* CDBWrapper::Write: a batch of one put, written at once
DbWrite(d, k, v) == WriteBatch(d, BatchWrite(<<>>, k, v))

\* CDBWrapper::Erase: a batch of one delete, written at once
DbErase(d, k) == WriteBatch(d, BatchErase(<<>>, k))

\* CDBWrapper::ReadImpl: the stored bytes, if the key is there
ReadImpl(d, k) == IF k \in DOMAIN d THEN [found |-> TRUE, bytes |-> d[k]]
                  ELSE [found |-> FALSE, bytes |-> <<>>]

\* CDBWrapper::ExistsImpl
ExistsImpl(d, k) == k \in DOMAIN d

\* Read without the try and catch around the decoding
DbRead_NoCatch(d, k, T) ==
    LET strValue == ReadImpl(d, k)
        decoded == Unserialize(T, Xor(strValue.bytes, obfuscate_key))
    IN  IF ~strValue.found THEN RetFalse
        ELSE IF ~decoded.ok THEN Throw
        ELSE RetTrue(decoded.value)

\* CDBWrapper::Read<K,V>: false when absent or when the bytes do not decode
DbRead(d, k, T) ==
    LET strValue == ReadImpl(d, k)
        decoded == Unserialize(T, Xor(strValue.bytes, obfuscate_key))
    IN  IF ~strValue.found THEN RetFalse
        ELSE IF ~decoded.ok THEN RetFalse
        ELSE RetTrue(decoded.value)

\* CDBWrapper::Exists<K>
DbExists(d, k) == ExistsImpl(d, k)

\* CDBWrapper::ReadDataStream(const CDataStream&, CDataStream&): the stored
\* bytes with the obfuscation taken off, undecoded
ReadDataStream(d, k) ==
    LET strValue == ReadImpl(d, k)
    IN  IF ~strValue.found THEN RetFalse
        ELSE RetTrue(Xor(strValue.bytes, obfuscate_key))

-----------------------------------------------------------------------------
(* The overlay, CDBTransaction<Parent, CommitTarget>.  Its operations are   *)
(* functions of the world w: the adapter, the batch and every overlay, so   *)
(* that Commit can call its target's Write and Erase.                       *)

World == [db |-> db, batch |-> batch, writes |-> writes, deletes |-> deletes,
          memoryUsage |-> memoryUsage, erased |-> erased, cleared |-> cleared]

\* ValueHolderImpl<V>(v, valueMemoryUsage); moves counts the std::move(value)
\* calls made on the holder
ValueHolder(v) ==
    [type |-> v.type, value |-> v.value, memoryUsage |-> GetSerializeSize(v), moves |-> 0]

\* the V held by a ValueHolderImpl<V>
Held(h) == [type |-> h.type, value |-> h.value]

\* Write that leaves a deleted key in the delete-set
TxWrite_KeepsDelete(w, i, k, v) ==
    LET valueMemoryUsage == GetSerializeSize(v)
        mu2 == IF k \in DOMAIN w.writes[i]
               THEN w.memoryUsage[i] - (Len(k) + w.writes[i][k].memoryUsage)
               ELSE w.memoryUsage[i]
    IN  [w EXCEPT !.writes[i] = MapPut(@, k, ValueHolder(v)),
                  !.memoryUsage[i] = mu2 + Len(k) + valueMemoryUsage,
                  !.erased[i] = @ \ {k},
                  !.cleared[i] = @ \ {k}]

\* Write that keeps the holder of a key already written (emplace alone)
TxWrite_KeepsOld(w, i, k, v) ==
    IF k \in DOMAIN w.writes[i]
    THEN [w EXCEPT !.erased[i] = @ \ {k}, !.cleared[i] = @ \ {k}]
    ELSE LET valueMemoryUsage == GetSerializeSize(v)
             mu1 == IF k \in w.deletes[i] THEN w.memoryUsage[i] - Len(k) ELSE w.memoryUsage[i]
         IN  [w EXCEPT !.deletes[i] = @ \ {k},
                       !.writes[i] = MapPut(@, k, ValueHolder(v)),
                       !.memoryUsage[i] = mu1 + Len(k) + valueMemoryUsage,
                       !.erased[i] = @ \ {k},
                       !.cleared[i] = @ \ {k}]

\* Write that does not take the replaced entry off the counter
TxWrite_AddsUsage(w, i, k, v) ==
    LET valueMemoryUsage == GetSerializeSize(v)
        mu1 == IF k \in w.deletes[i] THEN w.memoryUsage[i] - Len(k) ELSE w.memoryUsage[i]
    IN  [w EXCEPT !.deletes[i] = @ \ {k},
                  !.writes[i] = MapPut(@, k, ValueHolder(v)),
                  !.memoryUsage[i] = mu1 + Len(k) + valueMemoryUsage,
                  !.erased[i] = @ \ {k},
                  !.cleared[i] = @ \ {k}]

\* CDBTransaction::Write(const CDataStream&, const V&)
TxWrite(w, i, k, v) ==
    LET valueMemoryUsage == GetSerializeSize(v)
        mu1 == IF k \in w.deletes[i] THEN w.memoryUsage[i] - Len(k) ELSE w.memoryUsage[i]
        mu2 == IF k \in DOMAIN w.writes[i]
               THEN mu1 - (Len(k) + w.writes[i][k].memoryUsage)
               ELSE mu1
    IN  [w EXCEPT !.deletes[i] = @ \ {k},
                  !.writes[i] = MapPut(@, k, ValueHolder(v)),
                  !.memoryUsage[i] = mu2 + Len(k) + valueMemoryUsage,
                  !.erased[i] = @ \ {k},
                  !.cleared[i] = @ \ {k}]

\* Erase that adds the key size also when the key is already deleted
TxErase_CountsTwice(w, i, k) ==
    LET mu1 == IF k \in DOMAIN w.writes[i]
               THEN w.memoryUsage[i] - (Len(k) + w.writes[i][k].memoryUsage)
               ELSE w.memoryUsage[i]
    IN  [w EXCEPT !.writes[i] = MapDel(@, k),
                  !.deletes[i] = @ \cup {k},
                  !.memoryUsage[i] = mu1 + Len(k),
                  !.erased[i] = @ \cup {k},
                  !.cleared[i] = @ \ {k}]

\* Erase that also erases the key from the adapter under the overlay at once
TxErase_WritesThrough(w, i, k) ==
    LET mu1 == IF k \in DOMAIN w.writes[i]
               THEN w.memoryUsage[i] - (Len(k) + w.writes[i][k].memoryUsage)
               ELSE w.memoryUsage[i]
        mu2 == IF k \notin w.deletes[i] THEN mu1 + Len(k) ELSE mu1
    IN  [w EXCEPT !.writes[i] = MapDel(@, k),
                  !.deletes[i] = @ \cup {k},
                  !.memoryUsage[i] = mu2,
                  !.erased[i] = @ \cup {k},
                  !.cleared[i] = @ \ {k},
                  !.db = IF Parent[i] = DB THEN DbErase(@, k) ELSE @]

\* Erase that leaves the write-set entry of the key where it is
TxErase_KeepsWrite(w, i, k) ==
    LET mu2 == IF k \notin w.deletes[i] THEN w.memoryUsage[i] + Len(k) ELSE w.memoryUsage[i]
    IN  [w EXCEPT !.deletes[i] = @ \cup {k},
                  !.memoryUsage[i] = mu2,
                  !.erased[i] = @ \cup {k},
                  !.cleared[i] = @ \ {k}]

\* CDBTransaction::Erase(const CDataStream&)
TxErase(w, i, k) ==
    LET mu1 == IF k \in DOMAIN w.writes[i]
               THEN w.memoryUsage[i] - (Len(k) + w.writes[i][k].memoryUsage)
               ELSE w.memoryUsage[i]
        mu2 == IF k \notin w.deletes[i] THEN mu1 + Len(k) ELSE mu1
    IN  [w EXCEPT !.writes[i] = MapDel(@, k),
                  !.deletes[i] = @ \cup {k},
                  !.memoryUsage[i] = mu2,
                  !.erased[i] = @ \cup {k},
                  !.cleared[i] = @ \ {k}]

\* Clear that forgets the counter
TxClear_KeepsUsage(w, i) ==
    [w EXCEPT !.writes[i] = EmptyMap, !.deletes[i] = {}, !.cleared[i] = w.erased[i]]

\* CDBTransaction::Clear
TxClear(w, i) ==
    [w EXCEPT !.writes[i] = EmptyMap, !.deletes[i] = {}, !.memoryUsage[i] = 0,
              !.cleared[i] = w.erased[i]]

\* commitTarget.Erase(k), for each kind of CommitTarget
TargetErase(w, t, k) ==
    IF t = DB THEN [w EXCEPT !.db = DbErase(@, k)]
    ELSE IF t = BATCH THEN [w EXCEPT !.batch = BatchErase(@, k)]
    ELSE TxErase(w, t, k)

\* a write into a batch that goes to the adapter at once instead of being staged
TargetWrite_PastBatch(w, t, k, v) ==
    IF t = DB THEN [w EXCEPT !.db = DbWrite(@, k, v)]
    ELSE IF t = BATCH THEN [w EXCEPT !.db = DbWrite(@, k, v)]
    ELSE TxWrite(w, t, k, v)

\* ValueHolderImpl<V>::Write: commitTarget.Write(ssKey, std::move(value))
TargetWrite(w, t, k, v) ==
    IF t = DB THEN [w EXCEPT !.db = DbWrite(@, k, v)]
    ELSE IF t = BATCH THEN [w EXCEPT !.batch = BatchWrite(@, k, v)]
    ELSE TxWrite(w, t, k, v)

RECURSIVE CommitDeletes(_, _, _)

\* the loop over deletes left after its first key
CommitDeletes_FirstOnly(w, t, ks) ==
    IF ks = <<>> THEN w ELSE TargetErase(w, t, Head(ks))

\* for (const auto &k : deletes) commitTarget.Erase(k);
CommitDeletes(w, t, ks) ==
    IF ks = <<>> THEN w ELSE CommitDeletes(TargetErase(w, t, Head(ks)), t, Tail(ks))

\* for (auto &p : writes) p.second->Write(p.first, commitTarget);
RECURSIVE CommitWrites(_, _, _, _)
CommitWrites(w, i, t, ks) ==
    IF ks = <<>> THEN w
    ELSE LET w1 == TargetWrite(w, t, Head(ks), Held(w.writes[i][Head(ks)]))
         IN  CommitWrites([w1 EXCEPT !.writes[i][Head(ks)].moves = @ + 1], i, t, Tail(ks))

\* Commit that calls Clear before it moves the writes
TxCommit_ClearsFirst(w, i) ==
    LET t == commitTarget[i]
        w1 == CommitDeletes(w, t, SortKeys(w.deletes[i]))
        w2 == TxClear(w1, i)
        w3 == CommitWrites(w2, i, t, SortKeys(DOMAIN w2.writes[i]))
    IN  [w3 EXCEPT !.erased[i] = {}, !.cleared[i] = {}]

\* Commit without the loop over deletes
TxCommit_WritesOnly(w, i) ==
    LET t == commitTarget[i]
        w2 == CommitWrites(w, i, t, SortKeys(DOMAIN w.writes[i]))
    IN  [TxClear(w2, i) EXCEPT !.erased[i] = {}, !.cleared[i] = {}]

\* Commit that does not call Clear
TxCommit_NoClear(w, i) ==
    LET t == commitTarget[i]
        w1 == CommitDeletes(w, t, SortKeys(w.deletes[i]))
        w2 == CommitWrites(w1, i, t, SortKeys(DOMAIN w.writes[i]))
    IN  [w2 EXCEPT !.erased[i] = {}, !.cleared[i] = {}]

\* CDBTransaction::Commit: the deletes, then the writes, then Clear
TxCommit(w, i) ==
    LET t == commitTarget[i]
        w1 == CommitDeletes(w, t, SortKeys(w.deletes[i]))
        w2 == CommitWrites(w1, i, t, SortKeys(DOMAIN w.writes[i]))
    IN  [TxClear(w2, i) EXCEPT !.erased[i] = {}, !.cleared[i] = {}]

RECURSIVE Read(_, _, _, _)
RECURSIVE Exists(_, _, _)

\* Read that does not consult the delete-set
Read_IgnoresDeletes(w, s, k, T) ==
    IF s = DB THEN DbRead(w.db, k, T)
    ELSE IF k \in DOMAIN w.writes[s]
         THEN IF w.writes[s][k].type # T THEN Throw
              ELSE RetTrue(w.writes[s][k].value)
    ELSE Read(w, Parent[s], k, T)

\* Exists that asks the parent before the write-set
Exists_ParentFirst(w, s, k) ==
    IF s = DB THEN DbExists(w.db, k)
    ELSE IF k \in w.deletes[s] THEN FALSE
    ELSE Exists(w, Parent[s], k)

\* Read that asks the parent when the holder is of another type
Read_FallsThrough(w, s, k, T) ==
    IF s = DB THEN DbRead(w.db, k, T)
    ELSE IF k \in w.deletes[s] THEN RetFalse
    ELSE IF k \in DOMAIN w.writes[s] /\ w.writes[s][k].type = T
         THEN RetTrue(w.writes[s][k].value)
    ELSE Read(w, Parent[s], k, T)

\* CDBTransaction::Read<V>(const CDataStream&, V&) and, for the adapter, CDBWrapper::Read
Read(w, s, k, T) ==
    IF s = DB THEN DbRead(w.db, k, T)
    ELSE IF k \in w.deletes[s] THEN RetFalse
    ELSE IF k \in DOMAIN w.writes[s]
         THEN IF w.writes[s][k].type # T THEN Throw
              ELSE RetTrue(w.writes[s][k].value)
    ELSE Read(w, Parent[s], k, T)

\* CDBTransaction::Exists(const CDataStream&) and, for the adapter, CDBWrapper::Exists
Exists(w, s, k) ==
    IF s = DB THEN DbExists(w.db, k)
    ELSE IF k \in w.deletes[s] THEN FALSE
    ELSE IF k \in DOMAIN w.writes[s] THEN TRUE
    ELSE Exists(w, Parent[s], k)

\* CDBTransaction::IsClean
IsClean(w, i) == w.writes[i] = EmptyMap /\ w.deletes[i] = {}

\* GetMemoryUsage that casts the counter without looking at its sign
GetMemoryUsage_NoClamp(w, i) == w.memoryUsage[i]

\* CDBTransaction::GetMemoryUsage
GetMemoryUsage(w, i) == IF w.memoryUsage[i] < 0 THEN 0 ELSE w.memoryUsage[i]

-----------------------------------------------------------------------------
(* CDBIterator, the adapter's cursor: a key of db, or End when not Valid() *)

\* the first key of S that is not less than k, or End
LowerBound(S, k) ==
    LET ge == {x \in S : ~less(x, k)}
    IN  IF ge = {} THEN End ELSE MinKey(ge)

\* the first key of S after k, or End
KeyAfter(S, k) ==
    LET gt == {x \in S : less(k, x)}
    IN  IF gt = {} THEN End ELSE MinKey(gt)

\* CDBIterator::SeekToFirst
DbSeekToFirst(d) == IF DOMAIN d = {} THEN End ELSE MinKey(DOMAIN d)

\* CDBIterator::Seek
DbSeek(d, k) == LowerBound(DOMAIN d, k)

\* CDBIterator::Next
DbNext(d, pos) == KeyAfter(DOMAIN d, pos)

\* GetValue of the adapter's iterator that decodes the stored bytes as they are
DbIterGetValue_NoXor(d, pos, T) ==
    LET decoded == Unserialize(T, d[pos])
    IN  IF ~decoded.ok THEN RetFalse ELSE RetTrue(decoded.value)

\* CDBIterator::GetValue<V> at the entry pos: GetValueImpl(), Xor, operator>>
DbIterGetValue(d, pos, T) ==
    LET decoded == Unserialize(T, Xor(d[pos], obfuscate_key))
    IN  IF ~decoded.ok THEN RetFalse ELSE RetTrue(decoded.value)

-----------------------------------------------------------------------------
(* CDBTransactionIterator.  The iterator of overlay j owns the iterator of  *)
(* Parent[j]; I holds the fields of the whole chain down to the adapter's   *)
(* CDBIterator.                                                             *)

Iter == [transactionIt |-> transactionIt, parentKey |-> parentKey,
         curIsParent |-> curIsParent, piter |-> piter, assertFailed |-> assertFailed]

\* the overlays from j down to the adapter
RECURSIVE Chain(_)
Chain(j) == IF j = DB THEN {} ELSE {j} \cup Chain(Parent[j])

\* CDBTransactionIterator(CDBTransaction&), and the constructors of its parentIt chain
NewIter(j) ==
    [transactionIt |-> [x \in Chain(j) |-> End],
     parentKey |-> [x \in Chain(j) |-> NoKey],
     curIsParent |-> [x \in Chain(j) |-> FALSE],
     piter |-> End,
     assertFailed |-> FALSE]

\* no second reader has an iterator
NoIter2 == [top |-> NoIter, it |-> NewIter(DB), from |-> End, yielded |-> <<>>]

\* transaction.writes.begin()
WritesBegin(ws) == IF DOMAIN ws = {} THEN End ELSE MinKey(DOMAIN ws)

RECURSIVE ItValid(_, _, _)
RECURSIVE ItGetKey(_, _, _)
RECURSIVE ItNext(_, _, _)
RECURSIVE ItSeekToFirst(_, _, _)
RECURSIVE ItSeek(_, _, _, _)
RECURSIVE SkipDeletedAndOverwritten(_, _, _)
RECURSIVE SkipSteps(_, _, _)

\* parentIt->Valid()
ParentValid(w, I, j) ==
    IF Parent[j] = DB THEN I.piter # End ELSE ItValid(w, I, Parent[j])

\* parentIt->GetKey()
ParentGetKey(w, I, j) ==
    IF Parent[j] = DB THEN I.piter ELSE ItGetKey(w, I, Parent[j])

\* parentIt->Next()
ParentNext(w, I, j) ==
    IF Parent[j] = DB THEN [I EXCEPT !.piter = DbNext(w.db, @)]
    ELSE ItNext(w, I, Parent[j])

\* parentIt->SeekToFirst()
ParentSeekToFirst(w, I, j) ==
    IF Parent[j] = DB THEN [I EXCEPT !.piter = DbSeekToFirst(w.db)]
    ELSE ItSeekToFirst(w, I, Parent[j])

\* parentIt->Seek(ssKey)
ParentSeek(w, I, j, k) ==
    IF Parent[j] = DB THEN [I EXCEPT !.piter = DbSeek(w.db, k)]
    ELSE ItSeek(w, I, Parent[j], k)

\* CDBTransactionIterator::Valid
ItValid(w, I, j) == I.transactionIt[j] # End \/ ParentValid(w, I, j)

\* CDBTransactionIterator::GetKey()
ItGetKey(w, I, j) ==
    IF ~ItValid(w, I, j) THEN NoKey
    ELSE IF I.curIsParent[j] THEN I.parentKey[j]
    ELSE I.transactionIt[j]

\* the skip that looks at the delete-set alone
SkipDeleted_Only(w, I, j) ==
    IF ~ParentValid(w, I, j) THEN I
    ELSE LET I1 == [I EXCEPT !.parentKey[j] = ParentGetKey(w, I, j)]
         IN  IF I1.parentKey[j] \notin w.deletes[j]
             THEN I1
             ELSE SkipDeletedAndOverwritten(w, ParentNext(w, I1, j), j)

\* CDBTransactionIterator::SkipDeletedAndOverwritten
SkipDeletedAndOverwritten(w, I, j) ==
    IF ~ParentValid(w, I, j) THEN I
    ELSE LET I1 == [I EXCEPT !.parentKey[j] = ParentGetKey(w, I, j)]
         IN  IF I1.parentKey[j] \notin w.deletes[j] /\ I1.parentKey[j] \notin DOMAIN w.writes[j]
             THEN I1
             ELSE SkipDeletedAndOverwritten(w, ParentNext(w, I1, j), j)

\* the parentIt->Next() calls the loop of SkipDeletedAndOverwritten makes
SkipSteps(w, I, j) ==
    IF ~ParentValid(w, I, j) THEN 0
    ELSE LET I1 == [I EXCEPT !.parentKey[j] = ParentGetKey(w, I, j)]
         IN  IF I1.parentKey[j] \notin w.deletes[j] /\ I1.parentKey[j] \notin DOMAIN w.writes[j]
             THEN 0
             ELSE 1 + SkipSteps(w, ParentNext(w, I1, j), j)

\* DecideCur that compares the keys when both legs are valid and otherwise
\* leaves the flag as it is
DecideCur_CompareOnly(w, I, j) ==
    IF I.transactionIt[j] # End /\ ParentValid(w, I, j)
    THEN IF less(I.transactionIt[j], I.parentKey[j])
         THEN [I EXCEPT !.curIsParent[j] = FALSE]
         ELSE [I EXCEPT !.curIsParent[j] = TRUE]
    ELSE I

\* CDBTransactionIterator::DecideCur
DecideCur(w, I, j) ==
    IF I.transactionIt[j] # End /\ ~ParentValid(w, I, j)
    THEN [I EXCEPT !.curIsParent[j] = FALSE]
    ELSE IF I.transactionIt[j] = End /\ ParentValid(w, I, j)
    THEN [I EXCEPT !.curIsParent[j] = TRUE]
    ELSE IF I.transactionIt[j] # End /\ ParentValid(w, I, j)
    THEN IF less(I.transactionIt[j], I.parentKey[j])
         THEN [I EXCEPT !.curIsParent[j] = FALSE]
         ELSE [I EXCEPT !.curIsParent[j] = TRUE]
    ELSE I

\* SeekToFirst that leaves the parent leg where parentIt->SeekToFirst() put it
ItSeekToFirst_NoSkip(w, I, j) ==
    LET I1 == [I EXCEPT !.transactionIt[j] = WritesBegin(w.writes[j])]
        I2 == ParentSeekToFirst(w, I1, j)
        I3 == IF ParentValid(w, I2, j)
              THEN [I2 EXCEPT !.parentKey[j] = ParentGetKey(w, I2, j)]
              ELSE I2
    IN  DecideCur(w, I3, j)

\* CDBTransactionIterator::SeekToFirst
ItSeekToFirst(w, I, j) ==
    LET I1 == [I EXCEPT !.transactionIt[j] = WritesBegin(w.writes[j])]
        I2 == ParentSeekToFirst(w, I1, j)
    IN  DecideCur(w, SkipDeletedAndOverwritten(w, I2, j), j)

\* Seek that puts the transaction leg after the key: upper_bound for lower_bound
ItSeek_UpperBound(w, I, j, k) ==
    LET I1 == [I EXCEPT !.transactionIt[j] = KeyAfter(DOMAIN w.writes[j], k)]
        I2 == ParentSeek(w, I1, j, k)
    IN  DecideCur(w, SkipDeletedAndOverwritten(w, I2, j), j)

\* CDBTransactionIterator::Seek(const CDataStream&)
ItSeek(w, I, j, k) ==
    LET I1 == [I EXCEPT !.transactionIt[j] = LowerBound(DOMAIN w.writes[j], k)]
        I2 == ParentSeek(w, I1, j, k)
    IN  DecideCur(w, SkipDeletedAndOverwritten(w, I2, j), j)

\* Next that leaves the parent leg where parentIt->Next() put it
ItNext_NoSkip(w, I, j) ==
    IF I.transactionIt[j] = End /\ ~ParentValid(w, I, j) THEN I
    ELSE IF I.curIsParent[j]
    THEN IF ~ParentValid(w, I, j) THEN [I EXCEPT !.assertFailed = TRUE]
         ELSE LET I1 == ParentNext(w, I, j)
                  I2 == IF ParentValid(w, I1, j)
                        THEN [I1 EXCEPT !.parentKey[j] = ParentGetKey(w, I1, j)]
                        ELSE I1
              IN  DecideCur(w, I2, j)
    ELSE IF I.transactionIt[j] = End THEN [I EXCEPT !.assertFailed = TRUE]
         ELSE DecideCur(w, [I EXCEPT !.transactionIt[j] = KeyAfter(DOMAIN w.writes[j], @)], j)

\* Next without the return for an iterator that is not valid
ItNext_NoGuard(w, I, j) ==
    IF I.curIsParent[j]
    THEN IF ~ParentValid(w, I, j) THEN [I EXCEPT !.assertFailed = TRUE]
         ELSE DecideCur(w, SkipDeletedAndOverwritten(w, ParentNext(w, I, j), j), j)
    ELSE IF I.transactionIt[j] = End THEN [I EXCEPT !.assertFailed = TRUE]
         ELSE DecideCur(w, [I EXCEPT !.transactionIt[j] = KeyAfter(DOMAIN w.writes[j], @)], j)

\* Next that steps the transaction leg along with the parent leg
ItNext_BothLegs(w, I, j) ==
    IF I.transactionIt[j] = End /\ ~ParentValid(w, I, j) THEN I
    ELSE IF I.curIsParent[j]
    THEN IF ~ParentValid(w, I, j) THEN [I EXCEPT !.assertFailed = TRUE]
         ELSE LET I1 == SkipDeletedAndOverwritten(w, ParentNext(w, I, j), j)
              IN  DecideCur(w, [I1 EXCEPT !.transactionIt[j] =
                                   IF @ = End THEN End ELSE KeyAfter(DOMAIN w.writes[j], @)], j)
    ELSE IF I.transactionIt[j] = End THEN [I EXCEPT !.assertFailed = TRUE]
         ELSE DecideCur(w, [I EXCEPT !.transactionIt[j] = KeyAfter(DOMAIN w.writes[j], @)], j)

\* CDBTransactionIterator::Next
ItNext(w, I, j) ==
    IF I.transactionIt[j] = End /\ ~ParentValid(w, I, j) THEN I
    ELSE IF I.curIsParent[j]
    THEN IF ~ParentValid(w, I, j) THEN [I EXCEPT !.assertFailed = TRUE]
         ELSE DecideCur(w, SkipDeletedAndOverwritten(w, ParentNext(w, I, j), j), j)
    ELSE IF I.transactionIt[j] = End THEN [I EXCEPT !.assertFailed = TRUE]
         ELSE DecideCur(w, [I EXCEPT !.transactionIt[j] = KeyAfter(DOMAIN w.writes[j], @)], j)

\* CDBTransactionIterator::GetKey<K>(K&): false when not valid and when the
\* key does not decode as a K
ItGetKeyTyped(w, I, j, T) ==
    IF ~ItValid(w, I, j) THEN RetFalse
    ELSE LET ssKey == IF I.curIsParent[j] THEN I.parentKey[j] ELSE I.transactionIt[j]
             key == Unserialize(T, ssKey)
         IN  IF key.ok THEN RetTrue(key.value) ELSE RetFalse

\* GetValue that takes the value of the parent leg from the adapter itself
ItGetValue_FromStore(w, I, j, T) ==
    IF ~ItValid(w, I, j) THEN RetFalse
    ELSE IF I.curIsParent[j] THEN DbRead(w.db, I.parentKey[j], T)
    ELSE Read(w, j, I.transactionIt[j], T)

\* CDBTransactionIterator::GetValue<V>
ItGetValue(w, I, j, T) ==
    IF ~ItValid(w, I, j) THEN RetFalse
    ELSE IF I.curIsParent[j] THEN Read(w, j, I.parentKey[j], T)
    ELSE Read(w, j, I.transactionIt[j], T)

-----------------------------------------------------------------------------
(* CFlatDB<T> of src/src/flatdatabase.h: one object kept in one file, as    *)
(* magic message, network magic number, object, checksum of what precedes.  *)

\* no file at pathDB: fopen(..., "rb") fails
NoFile == <<-1>>
\* T after Clear(): the empty object
Cleared == 0

\* a run without a CFlatDB
NoFlatDB == file = NoFile /\ objToLoad = Cleared /\ tmpObjToLoad = Cleared

\* strMagicMessage and Params().MessageStart(), each serialized in one byte
strMagicMessage == 1
MessageStart == 2
\* sizeof(uint256), in bytes of the model
HashSize == 1

Byte == 0..MaxByte
\* the objects of T, each serialized in one byte; any other byte does not
\* decode as a T
Objects == {Cleared, 1}

RECURSIVE SumOf(_)
SumOf(q) == IF q = <<>> THEN 0 ELSE Head(q) + SumOf(Tail(q))

\* Hash(ssObj): a checksum of the bytes, HashSize wide
Hash(bytes) == <<(SumOf(bytes) + Len(bytes)) % (MaxByte + 1)>>

\* what Write serializes: magic message, magic number, object, then the hash
\* of the three
FileOf(obj) ==
    LET ssObj == <<strMagicMessage, MessageStart, obj>>
    IN  ssObj \o Hash(ssObj)

\* CFlatDB::Write: the files it can leave.  fopen(..., "wb") fails and the
\* file is as it was; or the file is truncated and the write fails part way;
\* or all of it is written.
CFlatDB_Write(f, objToSave) ==
    {f} \cup {SubSeq(FileOf(objToSave), 1, n) : n \in 0..Len(FileOf(objToSave))}

\* T::CheckAndRemove: the object drops what has expired, which may be all
CheckAndRemove(obj) == {obj, Cleared}

\* CFlatDB::Read: the results it can give and what each leaves in objToLoad
CFlatDB_Read(f, obj, fDryRun) ==
    IF f = NoFile THEN {[result |-> "FileError", obj |-> obj]}
    ELSE LET dataSize == IF Len(f) - HashSize < 0 THEN 0 ELSE Len(f) - HashSize
             vchData == SubSeq(f, 1, dataSize)
             hashIn == SubSeq(f, dataSize + 1, dataSize + HashSize)
             format == [result |-> "IncorrectFormat", obj |-> Cleared]
             read ==
                 IF Len(f) < dataSize + HashSize
                 THEN {[result |-> "HashReadError", obj |-> obj]}
                 ELSE IF hashIn # Hash(vchData)
                 THEN {[result |-> "IncorrectHash", obj |-> obj]}
                 ELSE IF Len(vchData) < 1 THEN {format}
                 ELSE IF vchData[1] # strMagicMessage
                 THEN {[result |-> "IncorrectMagicMessage", obj |-> obj]}
                 ELSE IF Len(vchData) < 2 THEN {format}
                 ELSE IF vchData[2] # MessageStart THEN {format}
                 ELSE IF Len(vchData) < 3 THEN {format}
                 ELSE IF vchData[3] \notin Objects THEN {format}
                 ELSE IF fDryRun THEN {[result |-> "Ok", obj |-> vchData[3]]}
                 ELSE {[result |-> "Ok", obj |-> o] : o \in CheckAndRemove(vchData[3])}
         IN  \* filein.read can also fail on a file of any size
             read \cup {[result |-> "HashReadError", obj |-> obj]}

\* CFlatDB::Load, after its Read: what it returns for a read result
LoadReturns(readResult) ==
    IF readResult = "FileError" THEN TRUE
    ELSE IF readResult # "Ok"
    THEN IF readResult = "IncorrectFormat" THEN TRUE ELSE FALSE
    ELSE TRUE

\* Dump that goes on to Write whatever the dry-run read gave
DumpProceeds_Always(readResult) == TRUE

\* CFlatDB::Dump, after its dry-run Read: whether it goes on to Write
DumpProceeds(readResult) ==
    IF readResult = "FileError" THEN TRUE
    ELSE IF readResult # "Ok"
    THEN IF readResult = "IncorrectFormat" THEN TRUE ELSE FALSE
    ELSE TRUE

-----------------------------------------------------------------------------
(* Actions *)

NoValue == [type |-> "none", value |-> 0]
OpV(name, i, k, v) == [op |-> name, i |-> i, k |-> k, v |-> v, ret |-> "none"]
Op(name, i, k) == OpV(name, i, k, NoValue)

\* the world after an operation becomes the state
Becomes(w) ==
    /\ db' = w.db
    /\ batch' = w.batch
    /\ writes' = w.writes
    /\ deletes' = w.deletes
    /\ memoryUsage' = w.memoryUsage
    /\ erased' = w.erased
    /\ cleared' = w.cleared

\* the ways the overlays are stacked: nested overlays that commit into their
\* parents, nested overlays that both commit into the adapter, and a root
\* overlay that commits into a write batch
Deployments == { [i \in {"tx1", "tx2"} |-> Parent[i]],
                 [i \in {"tx1", "tx2"} |-> DB],
                 [i \in {"tx1"} |-> BATCH] }

Init ==
    /\ db = EmptyMap
    /\ obfuscate_key = ObfuscateKey
    /\ batch = <<>>
    /\ commitTarget \in Deployments
    /\ writes = [i \in Layers |-> EmptyMap]
    /\ deletes = [i \in Layers |-> {}]
    /\ memoryUsage = [i \in Layers |-> 0]
    /\ itTop = NoIter
    /\ transactionIt = EmptyMap
    /\ parentKey = EmptyMap
    /\ curIsParent = EmptyMap
    /\ piter = End
    /\ assertFailed = FALSE
    /\ itFrom = End
    /\ yielded = <<>>
    /\ it2 = NoIter2
    /\ nextCalls = 0
    /\ NoFlatDB
    /\ erased = [i \in Layers |-> {}]
    /\ cleared = [i \in Layers |-> {}]
    /\ last = Op("Init", NoIter, NoKey)

Write(i, k, v) ==
    /\ itTop = NoIter
    /\ Becomes(TxWrite(World, i, k, v))
    /\ last' = OpV("Write", i, k, v)
    /\ UNCHANGED <<flatVars, obfuscate_key, commitTarget, iterVars>>

Erase(i, k) ==
    /\ itTop = NoIter
    /\ Becomes(TxErase(World, i, k))
    /\ last' = Op("Erase", i, k)
    /\ UNCHANGED <<flatVars, obfuscate_key, commitTarget, iterVars>>

Clear(i) ==
    /\ itTop = NoIter
    /\ Becomes(TxClear(World, i))
    /\ last' = Op("Clear", i, NoKey)
    /\ UNCHANGED <<flatVars, obfuscate_key, commitTarget, iterVars>>

Commit(i) ==
    /\ itTop = NoIter
    /\ commitTarget[i] = BATCH =>
           Len(batch) + Cardinality(deletes[i]) + Cardinality(DOMAIN writes[i]) <= MaxBatch
    /\ Becomes(TxCommit(World, i))
    /\ last' = Op("Commit", i, NoKey)
    /\ UNCHANGED <<flatVars, obfuscate_key, commitTarget, iterVars>>

\* db.WriteBatch(batch) by the owner of the batch
DbWriteBatch ==
    /\ BATCH \in {commitTarget[i] : i \in Layers}
    /\ db' = WriteBatch(db, batch)
    /\ last' = Op("WriteBatch", NoIter, NoKey)
    /\ UNCHANGED <<flatVars, obfuscate_key, batch, commitTarget, writes, deletes, memoryUsage,
                   iterVars, erased, cleared>>

\* db.WriteBatch(batch) when the engine reports a failure: nothing is applied
DbWriteBatchFails ==
    /\ BATCH \in {commitTarget[i] : i \in Layers}
    /\ last' = Op("WriteBatchFailed", NoIter, NoKey)
    /\ UNCHANGED <<flatVars, overlayVars, iterVars, erased, cleared>>

\* CDBBatch::Clear
BatchClear ==
    /\ BATCH \in {commitTarget[i] : i \in Layers}
    /\ batch' = <<>>
    /\ last' = Op("BatchClear", NoIter, NoKey)
    /\ UNCHANGED <<flatVars, db, obfuscate_key, commitTarget, writes, deletes, memoryUsage,
                   iterVars, erased, cleared>>

Next ==
    \/ \E i \in Layers, k \in Keys, v \in Values : Write(i, k, v)
    \/ \E i \in Layers, k \in Keys : Erase(i, k)
    \/ \E i \in Layers : Clear(i)
    \/ \E i \in Layers : Commit(i)
    \/ DbWriteBatch
    \/ DbWriteBatchFails
    \/ BatchClear

Spec == Init /\ [][Next]_vars

-----------------------------------------------------------------------------
(* Traversals of a stable overlay with the merge iterator.  The overlays    *)
(* and the adapter hold pending and committed entries from the start; no    *)
(* operation changes them while an iterator is open.                        *)

IterKeys == {<<1>>, <<1, 2>>, <<2>>}

\* the value each store holds for the keys it holds
IterValue == [s \in {DB, "tx1", "tx2", "tx3"} |->
                 CASE s = DB -> [type |-> "uint16_t", value |-> 258]
                   [] s = "tx1" -> [type |-> "uint8_t", value |-> 7]
                   [] s = "tx2" -> [type |-> "uint16_t", value |-> 513]
                   [] s = "tx3" -> [type |-> "uint8_t", value |-> 9]]

\* an overlay after Write(k, v) for the keys of W and Erase(k) for those of D
OverlayWrites(s, W) == [k \in W |-> ValueHolder(IterValue[s])]
OverlayUsage(s, W, D) ==
    KeyBytes(W) + Cardinality(W) * GetSerializeSize(IterValue[s]) + KeyBytes(D)

InitIter ==
    /\ obfuscate_key = ObfuscateKey
    /\ batch = <<>>
    /\ commitTarget = [i \in {"tx1", "tx2"} |-> Parent[i]]
    /\ \E S \in SUBSET IterKeys :
          db = [k \in S |-> Xor(Serialize(IterValue[DB]), ObfuscateKey)]
    /\ \E W \in [{"tx1", "tx2"} -> SUBSET IterKeys] :
       \E D \in [{"tx1", "tx2"} -> SUBSET IterKeys] :
          /\ \A i \in {"tx1", "tx2"} : W[i] \cap D[i] = {}
          /\ writes = [i \in {"tx1", "tx2"} |-> OverlayWrites(i, W[i])]
          /\ deletes = D
          /\ memoryUsage = [i \in {"tx1", "tx2"} |-> OverlayUsage(i, W[i], D[i])]
          /\ erased = D
    /\ cleared = [i \in {"tx1", "tx2"} |-> {}]
    /\ itTop = NoIter
    /\ transactionIt = EmptyMap
    /\ parentKey = EmptyMap
    /\ curIsParent = EmptyMap
    /\ piter = End
    /\ assertFailed = FALSE
    /\ itFrom = End
    /\ yielded = <<>>
    /\ it2 = NoIter2
    /\ nextCalls = 0
    /\ NoFlatDB
    /\ last = Op("Init", NoIter, NoKey)

BecomesIter(I) ==
    /\ transactionIt' = I.transactionIt
    /\ parentKey' = I.parentKey
    /\ curIsParent' = I.curIsParent
    /\ piter' = I.piter
    /\ assertFailed' = I.assertFailed

\* transaction.NewIterator()
NewIterator(i) ==
    /\ itTop = NoIter
    /\ itTop' = i
    /\ BecomesIter(NewIter(i))
    /\ itFrom' = End
    /\ yielded' = <<>>
    /\ nextCalls' = 0
    /\ last' = Op("NewIterator", i, NoKey)
    /\ UNCHANGED <<flatVars, overlayVars, erased, cleared, it2>>

\* what a traversal loop collects at a position: GetKey() while Valid()
Collect(I) == IF ItValid(World, I, itTop) THEN <<ItGetKey(World, I, itTop)>> ELSE <<>>

\* it->SeekToFirst()
SeekToFirst ==
    /\ itTop # NoIter
    /\ LET I == ItSeekToFirst(World, Iter, itTop)
       IN  BecomesIter(I) /\ yielded' = Collect(I)
    /\ itFrom' = NoKey
    /\ nextCalls' = 0
    /\ last' = Op("SeekToFirst", itTop, NoKey)
    /\ UNCHANGED <<flatVars, overlayVars, erased, cleared, itTop, it2>>

\* it->Seek(k)
Seek(k) ==
    /\ itTop # NoIter
    /\ LET I == ItSeek(World, Iter, itTop, k)
       IN  BecomesIter(I) /\ yielded' = Collect(I)
    /\ itFrom' = k
    /\ nextCalls' = 0
    /\ last' = Op("Seek", itTop, k)
    /\ UNCHANGED <<flatVars, overlayVars, erased, cleared, itTop, it2>>

\* it->Next() that leaves the iterator where it is
IterNext_Stays ==
    /\ itTop # NoIter
    /\ BecomesIter(Iter)
    /\ yielded' = IF ItValid(World, Iter, itTop) THEN yielded \o Collect(Iter) ELSE yielded
    /\ nextCalls' = IF ItValid(World, Iter, itTop) THEN nextCalls + 1 ELSE nextCalls
    /\ last' = Op("Next", itTop, ItGetKey(World, Iter, itTop))
    /\ UNCHANGED <<flatVars, overlayVars, erased, cleared, itTop, itFrom, it2>>

\* it->Next(); the record keeps the key Next was called on, the empty key when
\* the iterator was not valid
IterNext ==
    /\ itTop # NoIter
    /\ LET I == ItNext(World, Iter, itTop)
       IN  /\ BecomesIter(I)
           /\ yielded' = IF ItValid(World, Iter, itTop) THEN yielded \o Collect(I) ELSE yielded
    /\ nextCalls' = IF ItValid(World, Iter, itTop) THEN nextCalls + 1 ELSE nextCalls
    /\ last' = Op("Next", itTop, ItGetKey(World, Iter, itTop))
    /\ UNCHANGED <<flatVars, overlayVars, erased, cleared, itTop, itFrom, it2>>

NextIter ==
    \/ \E i \in Layers : NewIterator(i)
    \/ SeekToFirst
    \/ \E k \in IterKeys : Seek(k)
    \/ IterNext

SpecIter == InitIter /\ [][NextIter]_vars

-----------------------------------------------------------------------------
(* One traversal of a stable overlay: a new iterator, one SeekToFirst or     *)
(* Seek, then the loop  for (; it->Valid(); it->Next()).  The loop runs      *)
(* unhindered, so its turn is weakly fair.                                   *)

\* it->SeekToFirst() on the new iterator
StartFirst == last.op = "NewIterator" /\ SeekToFirst

\* it->Seek(k) on the new iterator
StartAt(k) == last.op = "NewIterator" /\ Seek(k)

\* the loop condition: the iterator has been positioned and Valid() holds
LoopGuard ==
    /\ itTop # NoIter
    /\ last.op \in {"SeekToFirst", "Seek", "Next"}
    /\ ItValid(World, Iter, itTop)

\* one turn of the loop: Valid() held, Next() is called
LoopNext == LoopGuard /\ IterNext

\* a turn of the loop as the count of calls shows it.  IterNext has no guard
\* but the iterator's existence and LoopNext is the only step NextTraverse
\* allows while LoopGuard holds, so a turn is enabled exactly when LoopNext
\* is and a step is a turn exactly when it is a LoopNext.
LoopTurn == LoopGuard /\ nextCalls' = nextCalls + 1

NextTraverse ==
    \/ \E i \in Layers : NewIterator(i)
    \/ StartFirst
    \/ \E k \in IterKeys : StartAt(k)
    \/ LoopNext

SpecTraverse == InitIter /\ [][NextTraverse]_vars /\ WF_nextCalls(LoopTurn)

-----------------------------------------------------------------------------
(* A CFlatDB over a file of any content, or no file: Load and Dump.         *)

\* the files that can be at pathDB
Files == UNION {[1..n -> Byte] : n \in 0..MaxFileSize}

InitFlat ==
    /\ db = EmptyMap
    /\ obfuscate_key = ObfuscateKey
    /\ batch = <<>>
    /\ commitTarget = EmptyMap
    /\ writes = EmptyMap
    /\ deletes = EmptyMap
    /\ memoryUsage = EmptyMap
    /\ itTop = NoIter
    /\ transactionIt = EmptyMap
    /\ parentKey = EmptyMap
    /\ curIsParent = EmptyMap
    /\ piter = End
    /\ assertFailed = FALSE
    /\ itFrom = End
    /\ yielded = <<>>
    /\ it2 = NoIter2
    /\ nextCalls = 0
    /\ file \in Files \cup {NoFile}
    /\ objToLoad = Cleared
    /\ tmpObjToLoad = Cleared
    /\ erased = EmptyMap
    /\ cleared = EmptyMap
    /\ last = Op("Init", NoIter, NoKey)

\* the call, the ReadResult its Read gave, and the bool it returned
FlatOp(name, readResult, b) ==
    [OpV(name, NoIter, NoKey, [type |-> "ReadResult", value |-> readResult])
        EXCEPT !.ret = IF b THEN "true" ELSE "false"]

\* flatdb.Load(objToLoad)
CFlatDB_Load ==
    /\ \E r \in CFlatDB_Read(file, objToLoad, FALSE) :
          /\ objToLoad' = r.obj
          /\ last' = FlatOp("Load", r.result, LoadReturns(r.result))
    /\ UNCHANGED <<overlayVars, iterVars, erased, cleared, file, tmpObjToLoad>>

\* flatdb.Dump(objToSave, tmpObjToLoad)
CFlatDB_Dump(objToSave) ==
    /\ \E r \in CFlatDB_Read(file, tmpObjToLoad, TRUE) :
          /\ tmpObjToLoad' = r.obj
          /\ IF DumpProceeds(r.result)
             THEN /\ file' \in CFlatDB_Write(file, objToSave)
                  /\ last' = FlatOp("Dump", r.result, TRUE)
             ELSE /\ file' = file
                  /\ last' = FlatOp("Dump", r.result, FALSE)
    /\ UNCHANGED <<overlayVars, iterVars, erased, cleared, objToLoad>>

NextFlat ==
    \/ CFlatDB_Load
    \/ \E objToSave \in Objects : CFlatDB_Dump(objToSave)

SpecFlat == InitFlat /\ [][NextFlat]_vars

-----------------------------------------------------------------------------
(* Merge iterators over overlays nested three deep: tx3 over tx2 over tx1    *)
(* over the adapter, each stable while iterated.                             *)

InitDeep ==
    /\ obfuscate_key = ObfuscateKey
    /\ batch = <<>>
    /\ commitTarget = [i \in Overlays |-> Parent[i]]
    /\ \E S \in SUBSET Keys :
          db = [k \in S |-> Xor(Serialize(IterValue[DB]), ObfuscateKey)]
    /\ \E W \in [Overlays -> SUBSET Keys] :
       \E D \in [Overlays -> SUBSET Keys] :
          /\ \A i \in Overlays : W[i] \cap D[i] = {}
          /\ writes = [i \in Overlays |-> OverlayWrites(i, W[i])]
          /\ deletes = D
          /\ memoryUsage = [i \in Overlays |-> OverlayUsage(i, W[i], D[i])]
          /\ erased = D
    /\ cleared = [i \in Overlays |-> {}]
    /\ itTop = NoIter
    /\ transactionIt = EmptyMap
    /\ parentKey = EmptyMap
    /\ curIsParent = EmptyMap
    /\ piter = End
    /\ assertFailed = FALSE
    /\ itFrom = End
    /\ yielded = <<>>
    /\ it2 = NoIter2
    /\ nextCalls = 0
    /\ NoFlatDB
    /\ last = Op("Init", NoIter, NoKey)

NextDeep ==
    \/ \E i \in Layers : NewIterator(i)
    \/ SeekToFirst
    \/ \E k \in Keys : Seek(k)
    \/ IterNext

SpecDeep == InitDeep /\ [][NextDeep]_vars

-----------------------------------------------------------------------------
(* Typed reads of stable overlays: tx2 over tx1 over the adapter, each key   *)
(* of each store absent, deleted or held with a value of either type.        *)

InitRead ==
    /\ obfuscate_key = ObfuscateKey
    /\ batch = <<>>
    /\ commitTarget = [i \in {"tx1", "tx2"} |-> Parent[i]]
    /\ \E f \in [Keys -> Values \cup {NoValue}] :
          db = [k \in {x \in Keys : f[x] # NoValue} |->
                   Xor(Serialize(f[k]), ObfuscateKey)]
    /\ \E f \in [{"tx1", "tx2"} -> [Keys -> Values \cup {NoValue}]] :
       \E D \in [{"tx1", "tx2"} -> SUBSET Keys] :
          /\ \A i \in {"tx1", "tx2"} : \A k \in D[i] : f[i][k] = NoValue
          /\ writes = [i \in {"tx1", "tx2"} |->
                          [k \in {x \in Keys : f[i][x] # NoValue} |-> ValueHolder(f[i][k])]]
          /\ deletes = D
          /\ memoryUsage = [i \in {"tx1", "tx2"} |->
                               KeyBytes({x \in Keys : f[i][x] # NoValue})
                               + KeyBytes(D[i])
                               + (IF f[i][<<1, 2>>] # NoValue
                                  THEN GetSerializeSize(f[i][<<1, 2>>]) ELSE 0)
                               + (IF f[i][<<2>>] # NoValue
                                  THEN GetSerializeSize(f[i][<<2>>]) ELSE 0)]
          /\ erased = D
    /\ cleared = [i \in {"tx1", "tx2"} |-> {}]
    /\ itTop = NoIter
    /\ transactionIt = EmptyMap
    /\ parentKey = EmptyMap
    /\ curIsParent = EmptyMap
    /\ piter = End
    /\ assertFailed = FALSE
    /\ itFrom = End
    /\ yielded = <<>>
    /\ it2 = NoIter2
    /\ nextCalls = 0
    /\ NoFlatDB
    /\ last = Op("Init", NoIter, NoKey)

\* the call transaction.Read<T>(k, value) and what it gave
ReadOp(i, k, T, r) ==
    [OpV("Read", i, k, [type |-> T, value |-> r.value]) EXCEPT !.ret = r.ret]

\* Read that keeps what the parent gave in the write-set of the overlay
DoRead_Caches(i, k, T) ==
    LET r == Read(World, i, k, T)
        cached == k \notin DOMAIN writes[i] /\ k \notin deletes[i] /\ r.ret = "true"
    IN  /\ last' = ReadOp(i, k, T, r)
        /\ IF cached
           THEN Becomes(TxWrite(World, i, k, [type |-> T, value |-> r.value]))
           ELSE UNCHANGED <<db, batch, writes, deletes, memoryUsage, erased, cleared>>
        /\ UNCHANGED <<flatVars, obfuscate_key, commitTarget, iterVars>>

\* transaction.Read<T>(k, value): a const lookup, no member is assigned
DoRead(i, k, T) ==
    /\ last' = ReadOp(i, k, T, Read(World, i, k, T))
    /\ UNCHANGED <<flatVars, overlayVars, iterVars, erased, cleared>>

NextRead == \E i \in Layers : \E k \in Keys : \E T \in Types : DoRead(i, k, T)

SpecRead == InitRead /\ [][NextRead]_vars

-----------------------------------------------------------------------------
(* Readers of stable overlays, interleaved: two readers that traverse tx2    *)
(* over tx1 over the adapter, each with a merge iterator of its own, and     *)
(* readers that call Read, Exists and GetMemoryUsage.  Nobody writes.        *)

InitReaders ==
    /\ obfuscate_key = ObfuscateKey
    /\ batch = <<>>
    /\ commitTarget = [i \in {"tx1", "tx2"} |-> Parent[i]]
    /\ \E S \in SUBSET Keys :
          db = [k \in S |-> Xor(Serialize(IterValue[DB]), ObfuscateKey)]
    /\ \E W \in [{"tx1", "tx2"} -> SUBSET Keys] :
       \E D \in [{"tx1", "tx2"} -> SUBSET Keys] :
          /\ \A i \in {"tx1", "tx2"} : W[i] \cap D[i] = {}
          /\ writes = [i \in {"tx1", "tx2"} |-> OverlayWrites(i, W[i])]
          /\ deletes = D
          /\ memoryUsage = [i \in {"tx1", "tx2"} |-> OverlayUsage(i, W[i], D[i])]
          /\ erased = D
    /\ cleared = [i \in {"tx1", "tx2"} |-> {}]
    /\ itTop = NoIter
    /\ transactionIt = EmptyMap
    /\ parentKey = EmptyMap
    /\ curIsParent = EmptyMap
    /\ piter = End
    /\ assertFailed = FALSE
    /\ itFrom = End
    /\ yielded = <<>>
    /\ it2 = NoIter2
    /\ nextCalls = 0
    /\ NoFlatDB
    /\ last = Op("Init", NoIter, NoKey)

\* what the second reader's loop collects at a position: GetKey() while Valid()
Collect2(I, j) == IF ItValid(World, I, j) THEN <<ItGetKey(World, I, j)>> ELSE <<>>

\* the second reader: transaction.NewIterator()
NewIterator2(i) ==
    /\ it2.top = NoIter
    /\ it2' = [top |-> i, it |-> NewIter(i), from |-> End, yielded |-> <<>>]
    /\ last' = Op("NewIterator2", i, NoKey)
    /\ UNCHANGED <<flatVars, overlayVars, erased, cleared, itTop, transactionIt, parentKey,
                   curIsParent, piter, assertFailed, itFrom, yielded, nextCalls>>

\* the second reader: it->SeekToFirst()
SeekToFirst2 ==
    /\ it2.top # NoIter
    /\ LET I == ItSeekToFirst(World, it2.it, it2.top)
       IN  it2' = [it2 EXCEPT !.it = I, !.from = NoKey, !.yielded = Collect2(I, it2.top)]
    /\ last' = Op("SeekToFirst2", it2.top, NoKey)
    /\ UNCHANGED <<flatVars, overlayVars, erased, cleared, itTop, transactionIt, parentKey,
                   curIsParent, piter, assertFailed, itFrom, yielded, nextCalls>>

\* the second reader: it->Next()
IterNext2 ==
    /\ it2.top # NoIter
    /\ LET I == ItNext(World, it2.it, it2.top)
       IN  it2' = [it2 EXCEPT !.it = I,
                              !.yielded = IF ItValid(World, it2.it, it2.top)
                                          THEN @ \o Collect2(I, it2.top) ELSE @]
    /\ last' = Op("Next2", it2.top, NoKey)
    /\ UNCHANGED <<flatVars, overlayVars, erased, cleared, itTop, transactionIt, parentKey,
                   curIsParent, piter, assertFailed, itFrom, yielded, nextCalls>>

\* a bool a const method returned
BoolOp(name, i, k, b) ==
    [Op(name, i, k) EXCEPT !.ret = IF b THEN "true" ELSE "false"]

\* transaction.Exists(k): a const method
DoExists(i, k) ==
    /\ last' = BoolOp("Exists", i, k, Exists(World, i, k))
    /\ UNCHANGED <<flatVars, overlayVars, iterVars, erased, cleared>>

\* transaction.GetMemoryUsage(): a const method
DoGetMemoryUsage(i) ==
    /\ last' = [OpV("GetMemoryUsage", i, NoKey,
                    [type |-> "size_t", value |-> GetMemoryUsage(World, i)])
                   EXCEPT !.ret = "value"]
    /\ UNCHANGED <<flatVars, overlayVars, iterVars, erased, cleared>>

NextReaders ==
    \/ NewIterator("tx2")
    \/ SeekToFirst
    \/ IterNext
    \/ NewIterator2("tx2")
    \/ SeekToFirst2
    \/ IterNext2
    \/ \E i \in Layers : \E k \in Keys : \E T \in Types : DoRead(i, k, T)
    \/ \E i \in Layers : \E k \in Keys : DoExists(i, k)
    \/ \E i \in Layers : DoGetMemoryUsage(i)

SpecReaders == InitReaders /\ [][NextReaders]_vars

-----------------------------------------------------------------------------
(* The adapter's obfuscation and decoding: serialized values of any length   *)
(* stored under an obfuscation key of any length, read back on each of the   *)
(* adapter's read paths and through an overlay tx1 over the adapter.         *)

\* the serialized values stored, as bytes
ByteStrings == {<<>>, <<7>>, <<2, 1>>, <<165, 90>>, <<0, 0, 0>>, <<165, 90, 165>>, <<1, 2, 3>>}

\* the obfuscation keys: all-zero ones (a database without obfuscation) and others
Keystreams == {<<0>>, <<0, 0>>, <<165>>, <<165, 90>>, <<255, 1, 16>>}

InitXor ==
    /\ obfuscate_key \in Keystreams
    /\ db = EmptyMap
    /\ batch = <<>>
    /\ commitTarget = [i \in {"tx1"} |-> DB]
    /\ \E D \in SUBSET Keys :
          /\ writes = [i \in {"tx1"} |-> EmptyMap]
          /\ deletes = [i \in {"tx1"} |-> D]
          /\ memoryUsage = [i \in {"tx1"} |-> KeyBytes(D)]
          /\ erased = [i \in {"tx1"} |-> D]
    /\ cleared = [i \in {"tx1"} |-> {}]
    /\ itTop = NoIter
    /\ transactionIt = EmptyMap
    /\ parentKey = EmptyMap
    /\ curIsParent = EmptyMap
    /\ piter = End
    /\ assertFailed = FALSE
    /\ itFrom = End
    /\ yielded = <<>>
    /\ it2 = NoIter2
    /\ nextCalls = 0
    /\ NoFlatDB
    /\ last = Op("Init", NoIter, NoKey)

\* a value of the adapter's API that is a byte string
Bytes(b) == [type |-> "bytes", value |-> b]

\* db.Write(k, v) for a value that serializes to the bytes v: CDBBatch::Write
\* hands the serialized value to WriteImpl, and the batch of one is written
StoreBytes(k, v) ==
    /\ db' = WriteBatch(db, WriteImpl(<<>>, k, v))
    /\ last' = OpV("Store", DB, k, Bytes(v))
    /\ UNCHANGED <<flatVars, obfuscate_key, batch, commitTarget, writes, deletes, memoryUsage,
                   iterVars, erased, cleared>>

\* db.ReadDataStream(k, ssValue)
DoReadDataStream(k) ==
    /\ LET r == ReadDataStream(db, k)
       IN  last' = [OpV("ReadDataStream", DB, k, Bytes(r.value)) EXCEPT !.ret = r.ret]
    /\ UNCHANGED <<flatVars, overlayVars, iterVars, erased, cleared>>

\* db.Read<T>(k, value)
DoDbRead(k, T) ==
    /\ last' = ReadOp(DB, k, T, DbRead(db, k, T))
    /\ UNCHANGED <<flatVars, overlayVars, iterVars, erased, cleared>>

\* it = db.NewIterator(); it->Seek(k); it->GetValue<T>(value) on a valid it
DoIterGetValue(k, T) ==
    /\ DbSeek(db, k) # End
    /\ LET pos == DbSeek(db, k)
           r == DbIterGetValue(db, pos, T)
       IN  last' = [OpV("GetValue", DB, pos, [type |-> T, value |-> r.value])
                       EXCEPT !.ret = r.ret]
    /\ UNCHANGED <<flatVars, overlayVars, iterVars, erased, cleared>>

NextXor ==
    \/ \E k \in Keys : \E v \in ByteStrings : StoreBytes(k, v)
    \/ \E k \in Keys : DoReadDataStream(k)
    \/ \E k \in Keys : \E T \in Types : DoDbRead(k, T)
    \/ \E k \in Keys : \E T \in Types : DoIterGetValue(k, T)
    \/ \E i \in Layers : \E k \in Keys : \E T \in Types : DoRead(i, k, T)

SpecXor == InitXor /\ [][NextXor]_vars

-----------------------------------------------------------------------------
(* An overlay written to while a merge iterator over it is open.  Write      *)
(* inserts a node into the std::map or replaces the holder of a node; no     *)
(* node is destroyed, so transactionIt stays a valid std::map iterator.      *)

InitOpen ==
    /\ obfuscate_key = ObfuscateKey
    /\ batch = <<>>
    /\ commitTarget = [i \in {"tx1"} |-> DB]
    /\ \E S \in SUBSET IterKeys :
          db = [k \in S |-> Xor(Serialize(IterValue[DB]), ObfuscateKey)]
    /\ \E W \in SUBSET IterKeys :
       \E D \in SUBSET IterKeys :
          /\ W \cap D = {}
          /\ writes = [i \in {"tx1"} |-> OverlayWrites(i, W)]
          /\ deletes = [i \in {"tx1"} |-> D]
          /\ memoryUsage = [i \in {"tx1"} |-> OverlayUsage(i, W, D)]
          /\ erased = [i \in {"tx1"} |-> D]
    /\ cleared = [i \in {"tx1"} |-> {}]
    /\ itTop = NoIter
    /\ transactionIt = EmptyMap
    /\ parentKey = EmptyMap
    /\ curIsParent = EmptyMap
    /\ piter = End
    /\ assertFailed = FALSE
    /\ itFrom = End
    /\ yielded = <<>>
    /\ it2 = NoIter2
    /\ nextCalls = 0
    /\ NoFlatDB
    /\ last = Op("Init", NoIter, NoKey)

\* transaction.Write(k, v) between two calls on the open iterator
WriteOpen(k) ==
    /\ itTop # NoIter
    /\ Becomes(TxWrite(World, itTop, k, IterValue[itTop]))
    /\ last' = OpV("Write", itTop, k, IterValue[itTop])
    /\ UNCHANGED <<flatVars, obfuscate_key, commitTarget, iterVars>>

NextOpen ==
    \/ \E i \in Layers : NewIterator(i)
    \/ SeekToFirst
    \/ \E k \in IterKeys : Seek(k)
    \/ IterNext
    \/ \E k \in IterKeys : WriteOpen(k)

SpecOpen == InitOpen /\ [][NextOpen]_vars

-----------------------------------------------------------------------------
(* Properties of the overlay *)

\* the keys of the merged view of store s: its write-set keys and the keys of
\* its parent's view that are in neither its write-set nor its delete-set
RECURSIVE MergedKeys(_, _)
MergedKeys(w, s) ==
    IF s = DB THEN DOMAIN w.db
    ELSE (DOMAIN w.writes[s]) \cup
         (MergedKeys(w, Parent[s]) \ ((DOMAIN w.writes[s]) \cup w.deletes[s]))

\* C1: for every overlay, key and requested type, Read returns false when the
\* key is in the delete-set; otherwise, when the key is in the write-set, a
\* Read that returns (one asking for the type held) returns the held value;
\* otherwise it is exactly the parent's Read.
C1_ReadPrecedence ==
    \A i \in Layers, k \in Keys, T \in Types :
        LET r == Read(World, i, k, T)
        IN  IF k \in deletes[i] THEN r = RetFalse
            ELSE IF k \in DOMAIN writes[i]
            THEN /\ r.ret # "throw" => r = RetTrue(writes[i][k].value)
                 /\ writes[i][k].type = T => r.ret # "throw"
            ELSE r = Read(World, Parent[i], k, T)

\* a deleted key the parent holds, and a written key the parent holds with
\* another value
C1_Witness ==
    /\ "tx2" \in Layers
    /\ \E k \in deletes["tx2"] : \E T \in Types : Read(World, "tx1", k, T).ret = "true"
    /\ \E k \in DOMAIN writes["tx2"] :
          LET T == writes["tx2"][k].type
          IN  /\ Read(World, "tx1", k, T).ret = "true"
              /\ Read(World, "tx1", k, T) # Read(World, "tx2", k, T)

\* C2: Exists is false for a key of the delete-set, otherwise true for a key
\* of the write-set, otherwise exactly the parent's Exists.
C2_ExistsPrecedence ==
    \A i \in Layers, k \in Keys :
        LET e == Exists(World, i, k)
        IN  IF k \in deletes[i] THEN e = FALSE
            ELSE IF k \in DOMAIN writes[i] THEN e = TRUE
            ELSE e = Exists(World, Parent[i], k)

\* a deleted key the parent has, and a written key the parent does not have
C2_Witness ==
    /\ "tx2" \in Layers
    /\ \E k \in deletes["tx2"] : Exists(World, "tx1", k)
    /\ \E k \in DOMAIN writes["tx2"] : ~Exists(World, "tx1", k)

\* C3: no key is in the write-set and in the delete-set of an overlay at once.
C3_SetsDisjoint ==
    \A i \in Layers : (DOMAIN writes[i]) \cap deletes[i] = {}

\* a child's Commit has just put a write and an erase into its target
C3_Witness ==
    /\ last = Op("Commit", "tx2", NoKey)
    /\ commitTarget["tx2"] = "tx1"
    /\ writes["tx1"] # EmptyMap
    /\ deletes["tx1"] # {}

\* the sum the counter stands for: key and recorded value size of every
\* write-set entry, key size of every delete-set entry
ExpectedUsage(i) ==
    LET RECURSIVE ValueBytes(_)
        ValueBytes(S) ==
            IF S = {} THEN 0
            ELSE writes[i][MinKey(S)].memoryUsage + ValueBytes(S \ {MinKey(S)})
    IN  KeyBytes(DOMAIN writes[i]) + ValueBytes(DOMAIN writes[i]) + KeyBytes(deletes[i])

\* C4: memoryUsage equals that sum, the recorded size of a value is its
\* serialized size, and the counter is never negative.
C4_MemoryUsageIsSum ==
    \A i \in Layers :
        /\ memoryUsage[i] = ExpectedUsage(i)
        /\ memoryUsage[i] >= 0
        /\ \A k \in DOMAIN writes[i] :
              writes[i][k].memoryUsage = GetSerializeSize(Held(writes[i][k]))

\* an overlay with a written and a deleted key, right after one more Write
C4_Witness ==
    /\ last.op = "Write"
    /\ writes[last.i] # EmptyMap
    /\ deletes[last.i] # {}
    /\ memoryUsage[last.i] > 0

\* the step calls Erase(k) or Clear() on overlay i, itself or through the
\* Commit of an overlay whose commit target i is
ErasesOrClears(i, k) ==
    \/ last' = Op("Erase", i, k)
    \/ last' = Op("Clear", i, NoKey)
    \/ \E j \in Layers : /\ last' = Op("Commit", j, NoKey)
                         /\ commitTarget[j] = i
                         /\ k \in deletes[j]

\* the step calls Write(k, v) on overlay i, itself or through such a Commit
Overwrites(i, k) ==
    \/ last'.op = "Write" /\ last'.i = i /\ last'.k = k
    \/ \E j \in Layers : /\ last' = Op("Commit", j, NoKey)
                         /\ commitTarget[j] = i
                         /\ k \in DOMAIN writes[j]

\* Read of the pair the write-set holds for k gives the same after the step
StillRead(i, k) ==
    Read(World', i, k, writes[i][k].type) = RetTrue(writes[i][k].value)

\* Write(k, v) has just returned: Read(k) gives v
ReadsWritten ==
    last.op = "Write" => Read(World, last.i, last.k, last.v.type) = RetTrue(last.v.value)

\* C5 as stated: a written pair is read back unchanged over every step that
\* is not an Erase(key), a Clear() or a new Write(key) on that overlay, a
\* Commit of that overlay included.
C5_ReadBackAcrossCommit ==
    [][\A i \in Layers, k \in Keys :
          (k \in DOMAIN writes[i] /\ ~ErasesOrClears(i, k) /\ ~Overwrites(i, k))
              => StillRead(i, k)]_vars

\* C5, amended: Write(k, v) makes Read(k) give v, and the pair is read back
\* unchanged over every step that is not an Erase(key), a Clear(), a
\* Commit() or a new Write(key) on that overlay.
C5_ReadBackUntilErased ==
    [][/\ ReadsWritten'
       /\ \A i \in Layers, k \in Keys :
             (/\ k \in DOMAIN writes[i]
              /\ ~ErasesOrClears(i, k)
              /\ ~Overwrites(i, k)
              /\ last' # Op("Commit", i, NoKey))
                 => StillRead(i, k)]_vars

\* a pair written to tx2 that shadows another value of its parent is still
\* held after the parent has committed
C5_Witness ==
    /\ "tx2" \in Layers
    /\ last = Op("Commit", "tx1", NoKey)
    /\ \E k \in DOMAIN writes["tx2"] :
          /\ Read(World, "tx2", k, writes["tx2"][k].type) = RetTrue(writes["tx2"][k].value)
          /\ k \in DOMAIN db
          /\ DbRead(db, k, writes["tx2"][k].type) # RetTrue(writes["tx2"][k].value)

\* Read(k) against the commit target of overlay i; a write batch is read
\* through the adapter once it has been written
TargetRead(w, i, k, T) ==
    IF commitTarget[i] = BATCH THEN DbRead(WriteBatch(w.db, w.batch), k, T)
    ELSE Read(w, commitTarget[i], k, T)

\* the step is Commit() of overlay i
Commits(i) == last' = Op("Commit", i, NoKey)

\* C7 as stated: after Commit, Read against the commit target returns false
\* for every key Erase was called for with no Write of the key after it.
C7_ErasedThenCommitted ==
    [][\A i \in Layers : Commits(i) =>
          \A k \in erased[i], T \in Types : TargetRead(World', i, k, T) = RetFalse]_vars

\* C7, amended: the same for every key Erase was called for with no Write of
\* the key and no Clear() after it.
C7_ErasedNotClearedThenCommitted ==
    [][\A i \in Layers : Commits(i) =>
          \A k \in erased[i] \ cleared[i], T \in Types :
              TargetRead(World', i, k, T) = RetFalse]_vars

\* tx2 has committed into tx1, which now deletes a key the adapter holds and
\* reads it as not found
C7_Witness ==
    /\ last = Op("Commit", "tx2", NoKey)
    /\ commitTarget["tx2"] = "tx1"
    /\ \E k \in deletes["tx1"] :
          /\ k \in DOMAIN db
          /\ \A T \in Types : Read(World, "tx1", k, T) = RetFalse

\* the commit target of overlay i holds value v for key k
TargetHolds(w, i, k, v) ==
    LET t == commitTarget[i]
        d == IF t = BATCH THEN WriteBatch(w.db, w.batch) ELSE w.db
    IN  IF t \in {DB, BATCH}
        THEN /\ k \in DOMAIN d
             /\ d[k] = Xor(Serialize(v), obfuscate_key)
             /\ DbRead(d, k, v.type) = RetTrue(v.value)
        ELSE /\ k \in DOMAIN w.writes[t]
             /\ Held(w.writes[t][k]) = v
             /\ k \notin w.deletes[t]

\* C8: after Commit the commit target holds, for every key of the write-set
\* before the call, exactly the value the overlay held.
C8_CommitMovesWrites ==
    [][\A i \in Layers : Commits(i) =>
          \A k \in DOMAIN writes[i] : TargetHolds(World', i, k, Held(writes[i][k]))]_vars

\* tx2 has committed into tx1 and tx1 holds a value that differs from the
\* one the adapter has for the key
C8_Witness ==
    /\ last = Op("Commit", "tx2", NoKey)
    /\ commitTarget["tx2"] = "tx1"
    /\ \E k \in DOMAIN writes["tx1"] :
          /\ k \in DOMAIN db
          /\ db[k] # Xor(Serialize(Held(writes["tx1"][k])), obfuscate_key)

\* what store t itself records for key k
StoreEntry(w, t, k) ==
    IF t = DB THEN <<ReadImpl(w.db, k)>>
    ELSE <<k \in w.deletes[t],
           IF k \in DOMAIN w.writes[t] THEN <<w.writes[t][k]>> ELSE <<>>>>

\* C9: when the commit target is the parent, every Read that returns gives
\* after Commit, asked of the target, what it gave before, asked of the
\* overlay; the target then has the keys of the overlay's merged view, and
\* its entries for keys in neither set are untouched.
C9_CommitIsMergedView ==
    [][\A i \in Layers : (Commits(i) /\ commitTarget[i] = Parent[i]) =>
          /\ \A k \in Keys, T \in Types :
                Read(World, i, k, T).ret # "throw" =>
                    Read(World', Parent[i], k, T) = Read(World, i, k, T)
          /\ MergedKeys(World', Parent[i]) = MergedKeys(World, i)
          /\ \A k \in Keys \ ((DOMAIN writes[i]) \cup deletes[i]) :
                StoreEntry(World', Parent[i], k) = StoreEntry(World, Parent[i], k)]_vars

\* tx1 has committed into the adapter, its parent, which now holds one key
\* only
C9_Witness ==
    /\ last = Op("Commit", "tx1", NoKey)
    /\ commitTarget["tx1"] = DB
    /\ Cardinality(DOMAIN db) = 1

\* C10: when Commit has returned the overlay is clean and its counter zero.
C10_CommitClears ==
    last.op = "Commit" =>
        /\ IsClean(World, last.i)
        /\ writes[last.i] = EmptyMap
        /\ deletes[last.i] = {}
        /\ memoryUsage[last.i] = 0
        /\ GetMemoryUsage(World, last.i) = 0

\* tx2 has committed entries into tx1
C10_Witness ==
    /\ last = Op("Commit", "tx2", NoKey)
    /\ commitTarget["tx2"] = "tx1"
    /\ memoryUsage["tx1"] > 0
    /\ db = EmptyMap

\* what the overlays other than i hold
OthersOf(i) ==
    [j \in Layers \ {i} |-> <<writes[j], deletes[j], memoryUsage[j]>>]

\* C11: a Write, Erase or Clear of overlay i changes neither the adapter, nor
\* the write batch, nor any other overlay (so neither its parent nor its
\* commit target); Clear leaves overlay i with empty sets and a zero counter.
C11_OnlyCommitReachesTarget ==
    [][\A i \in Layers :
          (last'.op \in {"Write", "Erase", "Clear"} /\ last'.i = i) =>
              /\ db' = db
              /\ batch' = batch
              /\ OthersOf(i)' = OthersOf(i)
              /\ last'.op = "Clear" =>
                    (writes'[i] = EmptyMap /\ deletes'[i] = {} /\ memoryUsage'[i] = 0)]_vars

\* tx1 has just been cleared of a pending erase while the adapter under it
\* holds the erased key
C11_Witness ==
    /\ last = Op("Clear", "tx1", NoKey)
    /\ cleared["tx1"] \cap DOMAIN db # {}
    /\ writes["tx1"] = EmptyMap

\* C12: when DecideCur has run with both legs valid and at the identical key,
\* the transaction leg is the current one.
C12_TieGoesToTransaction ==
    (/\ itTop # NoIter
     /\ last.op \in {"SeekToFirst", "Seek", "Next"}
     /\ transactionIt[itTop] # End
     /\ ParentValid(World, Iter, itTop)
     /\ transactionIt[itTop] = parentKey[itTop])
        => curIsParent[itTop] = FALSE

\* C17: a Read of overlay i for a key of its write-set (not in its delete-set)
\* with a requested type other than the type held throws, whatever the parent
\* holds for the key, and changes nothing of any overlay or of the adapter.
C17_TypeMismatchThrows ==
    [][\A i \in Layers : \A k \in Keys :
          (/\ last'.op = "Read" /\ last'.i = i /\ last'.k = k
           /\ k \in DOMAIN writes[i]
           /\ k \notin deletes[i]
           /\ writes[i][k].type # last'.v.type) =>
              /\ last'.ret = "throw"
              /\ writes' = writes
              /\ deletes' = deletes
              /\ memoryUsage' = memoryUsage
              /\ db' = db
              /\ batch' = batch]_vars

\* tx2.Read<uint8_t> has thrown for a key tx2 holds as uint16_t, while tx1
\* under it holds the key as uint8_t
C17_Witness ==
    /\ last.op = "Read"
    /\ last.i = "tx2"
    /\ last.ret = "throw"
    /\ last.v.type = "uint8_t"
    /\ last.k \in DOMAIN writes["tx2"]
    /\ writes["tx2"][last.k].type = "uint16_t"
    /\ Read(World, "tx1", last.k, "uint8_t") = RetTrue(7)

\* C18: a key that stays in the write-set of an overlay keeps the type it
\* was written with, and a Read with that type does not throw.
C18_SlotKeepsType ==
    [][\A i \in Layers : \A k \in Keys :
          (k \in DOMAIN writes[i] /\ k \in DOMAIN writes'[i]) =>
              /\ writes'[i][k].type = writes[i][k].type
              /\ Read(World', i, k, writes[i][k].type) # Throw]_vars

\* the overlay i inside Commit, after its two loops and before its Clear
BeforeClear(w, i) ==
    CommitWrites(CommitDeletes(w, commitTarget[i], SortKeys(w.deletes[i])),
                 i, commitTarget[i], SortKeys(DOMAIN w.writes[i])).writes[i]

\* C19: no holder that a Commit has moved its value out of is left in a
\* write-set, where a later Commit would move it again and a later Read would
\* return it: after every operation every holder is unmoved; a Commit moves
\* each of its holders once, leaves the write-set empty, and a Read of the
\* overlay then gives what the parent gives.
C19_MovedAtMostOnce ==
    [][/\ \A i \in Layers : \A k \in DOMAIN writes'[i] : writes'[i][k].moves = 0
       /\ \A i \in Layers :
             Commits(i) =>
                 /\ \A k \in DOMAIN writes[i] : BeforeClear(World, i)[k].moves = 1
                 /\ writes'[i] = EmptyMap
                 /\ \A k \in Keys : \A T \in Types :
                       Read(World', i, k, T) = Read(World', Parent[i], k, T)]_vars

\* tx1 has committed into the adapter and is empty, and the adapter holds an
\* entry that a Commit moved there
C19_Witness ==
    /\ last = Op("Commit", "tx1", NoKey)
    /\ commitTarget["tx1"] = DB
    /\ writes["tx1"] = EmptyMap
    /\ db # EmptyMap
    /\ erased["tx1"] = {}

\* the entries of batch b for key k, by position
EntriesFor(b, k) == {n \in 1..Len(b) : b[n].key = k}

\* the entry staged last for k
LastEntry(b, k) == b[CHOOSE n \in EntriesFor(b, k) : \A m \in EntriesFor(b, k) : m <= n]

\* every put and every delete of b is visible in d1, the adapter that held d0
AllVisible(b, d0, d1) ==
    \A k \in Keys :
        IF EntriesFor(b, k) = {}
        THEN /\ k \in DOMAIN d1 <=> k \in DOMAIN d0
             /\ k \in DOMAIN d0 => d1[k] = d0[k]
        ELSE IF LastEntry(b, k).op = "put"
        THEN k \in DOMAIN d1 /\ d1[k] = LastEntry(b, k).value
        ELSE k \notin DOMAIN d1

\* C20: a Commit of an overlay into a write batch leaves the adapter as it
\* was and stages every delete and every write of the overlay behind what the
\* batch held; a WriteBatch of the batch makes all the staged puts and deletes
\* visible in the adapter in one step, or, when it fails, none of them.
C20_BatchCommitIsAtomic ==
    [][/\ \A i \in Layers :
             (Commits(i) /\ commitTarget[i] = BATCH) =>
                 /\ db' = db
                 /\ Len(batch') = Len(batch) + Cardinality(deletes[i])
                                             + Cardinality(DOMAIN writes[i])
                 /\ SubSeq(batch', 1, Len(batch)) = batch
                 /\ \A k \in deletes[i] :
                       \E n \in (Len(batch) + 1)..Len(batch') : batch'[n] = DelEntry(k)
                 /\ \A k \in DOMAIN writes[i] :
                       \E n \in (Len(batch) + 1)..Len(batch') :
                          batch'[n] = PutEntry(k, Xor(Serialize(Held(writes[i][k])),
                                                      obfuscate_key))
       /\ last'.op = "WriteBatch" => AllVisible(batch, db, db')
       /\ last'.op = "WriteBatchFailed" => db' = db
       /\ last'.op \in {"WriteBatch", "WriteBatchFailed"} => batch' = batch]_vars

\* a batch holding a delete and a put that tx1 committed into it has been
\* written: the adapter holds the put and not the deleted key
C20_Witness ==
    /\ last.op = "WriteBatch"
    /\ Len(batch) = 2
    /\ batch[1].op = "del"
    /\ batch[2].op = "put"
    /\ batch[1].key # batch[2].key
    /\ batch[2].key \in DOMAIN db
    /\ batch[1].key \notin DOMAIN db

\* overlay i holds for every key other than k what it held before the step
OtherKeysKept(i, k) ==
    \A x \in Keys \ {k} :
        /\ x \in DOMAIN writes'[i] <=> x \in DOMAIN writes[i]
        /\ x \in DOMAIN writes[i] => writes'[i][x] = writes[i][x]
        /\ x \in deletes'[i] <=> x \in deletes[i]

\* C25: a Write(k, v) leaves k in the write-set with v and out of the
\* delete-set, and Read(k) returns v; an Erase(k) leaves k in the delete-set
\* and out of the write-set, and Read(k) returns false for every type,
\* whatever the parent holds; both leave every other key of the overlay as it
\* was.  So after any sequence of them the view of a key is that of the last
\* operation on it.
C25_LastOperationWins ==
    [][\A i \in Layers :
          /\ (last'.op = "Write" /\ last'.i = i) =>
                /\ last'.k \in DOMAIN writes'[i]
                /\ Held(writes'[i][last'.k]) = last'.v
                /\ last'.k \notin deletes'[i]
                /\ Read(World', i, last'.k, last'.v.type) = RetTrue(last'.v.value)
                /\ OtherKeysKept(i, last'.k)
          /\ (last'.op = "Erase" /\ last'.i = i) =>
                /\ last'.k \in deletes'[i]
                /\ last'.k \notin DOMAIN writes'[i]
                /\ \A T \in Types : Read(World', i, last'.k, T) = RetFalse
                /\ OtherKeysKept(i, last'.k)]_vars

\* tx2 has erased a key that tx1 under it holds, and still holds the other
\* key it wrote before
C25_Witness ==
    /\ "tx2" \in Layers
    /\ last.op = "Erase"
    /\ last.i = "tx2"
    /\ last.k \in deletes["tx2"]
    /\ last.k \in DOMAIN writes["tx1"]
    /\ \E x \in Keys \ {last.k} : x \in DOMAIN writes["tx2"]
    /\ \A T \in Types : Read(World, "tx2", last.k, T) = RetFalse

\* what the stores of world w hold: every write-set, delete-set and counter,
\* the adapter and the batch
Content(w) == <<w.writes, w.deletes, w.memoryUsage, w.db, w.batch>>

\* C26: in every state, Erase(k) called twice in a row leaves every
\* write-set, delete-set and counter as Erase(k) called once leaves them, and
\* so does Write(k, v) called twice in a row.
C26_EraseAndWriteIdempotent ==
    \A i \in Layers : \A k \in Keys :
        /\ Content(TxErase(TxErase(World, i, k), i, k)) = Content(TxErase(World, i, k))
        /\ \A v \in Values :
              Content(TxWrite(TxWrite(World, i, k, v), i, k, v))
                  = Content(TxWrite(World, i, k, v))

\* tx1 has written a key and holds a pending delete of another, and writing
\* the key again with the same value changes nothing
C26_Witness ==
    /\ last.op = "Write"
    /\ last.i = "tx1"
    /\ last.k \in DOMAIN writes["tx1"]
    /\ deletes["tx1"] # {}
    /\ memoryUsage["tx1"] > Len(last.k) + GetSerializeSize(last.v)
    /\ Content(TxWrite(World, "tx1", last.k, last.v)) = Content(World)

\* the orders a loop may visit the keys of S in
Orders(S) ==
    {q \in [1..Cardinality(S) -> S] : \A m, n \in 1..Cardinality(S) : q[m] = q[n] => m = n}

\* the entries staged in batch b, each with the number of times it is staged
Staged(b) ==
    [e \in {b[n] : n \in 1..Len(b)} |-> Cardinality({n \in 1..Len(b) : b[n] = e})]

\* what the commit target t holds in world w: an overlay its sets and
\* counter, the adapter its entries, a batch its staged entries and what
\* writing it makes of the adapter
TargetContent(w, t) ==
    IF t = DB THEN <<w.db>>
    ELSE IF t = BATCH THEN <<Staged(w.batch), WriteBatch(w.db, w.batch)>>
    ELSE <<w.writes[t], w.deletes[t], w.memoryUsage[t]>>

\* C27: what a Commit of overlay i leaves in its commit target is what the
\* deletes applied in any order followed by the writes in any order leave
\* there, and what the writes followed by the deletes leave there.
C27_CommitOrderIndependent ==
    [][\A i \in Layers :
          Commits(i) =>
              \A dq \in Orders(deletes[i]) : \A wq \in Orders(DOMAIN writes[i]) :
                  LET t == commitTarget[i]
                      deletesFirst == CommitWrites(CommitDeletes(World, t, dq), i, t, wq)
                      writesFirst == CommitDeletes(CommitWrites(World, i, t, wq), t, dq)
                  IN  /\ TargetContent(deletesFirst, t) = TargetContent(World', t)
                      /\ TargetContent(writesFirst, t) = TargetContent(World', t)]_vars

\* tx2 has committed into tx1 and is empty; tx1 holds a pending delete of one
\* key and a pending write of the other
C27_Witness ==
    /\ "tx2" \in Layers
    /\ commitTarget["tx2"] = "tx1"
    /\ last = Op("Commit", "tx2", NoKey)
    /\ writes["tx2"] = EmptyMap
    /\ deletes["tx1"] # {}
    /\ writes["tx1"] # EmptyMap

-----------------------------------------------------------------------------
(* Properties of the merge iterator *)

StrictlyAscending(q) == \A n \in 1..(Len(q) - 1) : less(q[n], q[n + 1])

\* the traversal from SeekToFirst has come to its end: Valid() is false
TraversalDone == itTop # NoIter /\ itFrom = NoKey /\ ~ItValid(World, Iter, itTop)

\* C6: the keys a traversal from SeekToFirst yields are strictly ascending
\* (so without duplicates) and all of the merged view; when Valid() becomes
\* false they are exactly the write-set keys and the unshadowed parent keys.
C6_FullTraversal ==
    (itTop # NoIter /\ itFrom = NoKey) =>
        /\ StrictlyAscending(yielded)
        /\ {yielded[n] : n \in 1..Len(yielded)} \subseteq MergedKeys(World, itTop)
        /\ TraversalDone =>
              {yielded[n] : n \in 1..Len(yielded)} = MergedKeys(World, itTop)

\* a finished traversal of tx2 that took keys from both legs, over a parent
\* with a key tx2 wrote again and a key tx2 deleted
C6_Witness ==
    /\ TraversalDone
    /\ itTop = "tx2"
    /\ Len(yielded) >= 2
    /\ \E n \in 1..Len(yielded) : yielded[n] \in DOMAIN writes["tx2"]
    /\ \E n \in 1..Len(yielded) : yielded[n] \notin DOMAIN writes["tx2"]
    /\ (DOMAIN writes["tx2"]) \cap MergedKeys(World, "tx1") # {}
    /\ deletes["tx2"] \cap MergedKeys(World, "tx1") # {}

\* the iterator has been positioned by the call named in last
Positioned == itTop # NoIter /\ last.op \in {"SeekToFirst", "Seek", "Next"}

\* C13: over a stable overlay, after every SeekToFirst, Seek and Next, a valid
\* parent leg stands at parentKey, which is in neither the delete-set nor the
\* write-set of the overlay; so the two legs are never at equal keys.  This
\* holds of the iterator of every overlay of the parentIt chain.
C13_ParentLegUnshadowed ==
    Positioned =>
        \A j \in Chain(itTop) :
            ParentValid(World, Iter, j) =>
                /\ parentKey[j] = ParentGetKey(World, Iter, j)
                /\ parentKey[j] \notin deletes[j]
                /\ parentKey[j] \notin DOMAIN writes[j]
                /\ transactionIt[j] # parentKey[j]

\* Next has moved the parent leg of tx2 over a key tx2 deleted and a key tx2
\* wrote again, to a key of the parent's view that tx2 does not shadow
C13_Witness ==
    /\ itTop = "tx2"
    /\ last.op = "Next"
    /\ ParentValid(World, Iter, "tx2")
    /\ Len(yielded) >= 2
    /\ \E k \in deletes["tx2"] \cap MergedKeys(World, "tx1") :
          less(yielded[1], k) /\ less(k, parentKey["tx2"])
    /\ (DOMAIN writes["tx2"]) \cap MergedKeys(World, "tx1") # {}

\* the keys of S that are not less than k, in ascending order
FromKey(S, k) == SortKeys({x \in S : ~less(x, k)})

\* the first element of a sorted sequence, or End
FirstOf(q) == IF q = <<>> THEN End ELSE q[1]

\* C14: over a stable overlay, Seek(key) puts the transaction leg at the first
\* write-set key >= key and the parent leg at the first key >= key of the
\* parent's view that the overlay does not shadow; the iterator is valid iff
\* the merged view has a key >= key, and is then at the smallest one; the
\* traversal with Next from there yields exactly the merged keys >= key, in
\* ascending order.
C14_SeekLowerBound ==
    (itTop # NoIter /\ itFrom \notin {End, NoKey}) =>
        LET merged == FromKey(MergedKeys(World, itTop), itFrom)
            unshadowed == MergedKeys(World, Parent[itTop]) \
                              ((DOMAIN writes[itTop]) \cup deletes[itTop])
            valid == ItValid(World, Iter, itTop)
        IN  /\ Len(yielded) <= Len(merged)
            /\ \A n \in 1..Len(yielded) : yielded[n] = merged[n]
            /\ valid => (yielded # <<>> /\ ItGetKey(World, Iter, itTop) = merged[Len(yielded)])
            /\ ~valid => yielded = merged
            /\ last.op = "Seek" =>
                  /\ valid <=> merged # <<>>
                  /\ valid => ItGetKey(World, Iter, itTop) = merged[1]
                  /\ transactionIt[itTop] = FirstOf(FromKey(DOMAIN writes[itTop], itFrom))
                  /\ ParentValid(World, Iter, itTop) <=> FromKey(unshadowed, itFrom) # <<>>
                  /\ ParentValid(World, Iter, itTop) =>
                        parentKey[itTop] = FirstOf(FromKey(unshadowed, itFrom))

\* a traversal of tx2 from Seek((1,2)) that has come to its end, having left
\* out a smaller key of each leg and yielded a key of each leg
C14_Witness ==
    /\ itTop = "tx2"
    /\ itFrom = <<1, 2>>
    /\ ~ItValid(World, Iter, "tx2")
    /\ <<1>> \in MergedKeys(World, "tx2")
    /\ yielded = <<(<<1, 2>>), (<<2>>)>>
    /\ \E k \in {<<1, 2>>, <<2>>} : k \in DOMAIN writes["tx2"]
    /\ \E k \in {<<1, 2>>, <<2>>} : k \notin DOMAIN writes["tx2"]

\* how many times a traversal has yielded k
TimesYielded(k) == Cardinality({n \in 1..Len(yielded) : yielded[n] = k})

\* the keys tx2 wrote that the overlay or the adapter under it holds as well
WrittenAgain == {k \in DOMAIN writes["tx2"] : k \in DOMAIN writes["tx1"] \/ k \in DOMAIN db}

\* C15: tx2 over tx1 over the adapter: a key tx2 wrote that an ancestor holds
\* as well is read from tx2 with the value tx2 wrote, is yielded by the merge
\* iterator of tx2 at most once (exactly once by a full traversal), and at
\* that position GetValue gives the value tx2 wrote.
C15_NearestWriteWins ==
    \A k \in WrittenAgain :
        /\ Read(World, "tx2", k, IterValue["tx2"].type) = RetTrue(IterValue["tx2"].value)
        /\ itTop = "tx2" =>
              /\ TimesYielded(k) <= 1
              /\ TraversalDone => TimesYielded(k) = 1
              /\ (ItValid(World, Iter, "tx2") /\ ItGetKey(World, Iter, "tx2") = k) =>
                    ItGetValue(World, Iter, "tx2", IterValue["tx2"].type)
                        = RetTrue(IterValue["tx2"].value)

\* a full traversal of tx2 over a key that tx2, tx1 and the adapter all hold,
\* each with a value of its own
C15_Witness ==
    /\ TraversalDone
    /\ itTop = "tx2"
    /\ \E k \in WrittenAgain :
          /\ k \in DOMAIN writes["tx1"]
          /\ k \in DOMAIN db
          /\ TimesYielded(k) = 1
          /\ Read(World, "tx1", k, IterValue["tx1"].type) = RetTrue(IterValue["tx1"].value)

\* the overlays nearer to the reader than j
Nearer(j) == {x \in Overlays : j \in Chain(Parent[x])}

\* the nearest store, seen from tx3, that holds k
NearestHolder(k) ==
    IF k \in DOMAIN writes["tx3"] THEN "tx3"
    ELSE IF k \in DOMAIN writes["tx2"] THEN "tx2"
    ELSE IF k \in DOMAIN writes["tx1"] THEN "tx1"
    ELSE DB

\* k is deleted at some overlay and not written again nearer to the reader
Hidden(k) ==
    \E j \in Overlays :
        k \in deletes[j] /\ \A x \in Nearer(j) : k \notin DOMAIN writes[x]

\* C16: overlays three deep over the adapter: at every entry the merge
\* iterator of tx3 yields, GetValue equals tx3.Read of that key for every
\* requested type, which is the value of the nearest layer that holds the key;
\* a key deleted at some layer and not written again nearer is never yielded,
\* whatever the deeper layers and the adapter hold.
C16_DeepValueIsRead ==
    itTop = "tx3" =>
        /\ \A n \in 1..Len(yielded) : ~Hidden(yielded[n])
        /\ ItValid(World, Iter, "tx3") =>
              LET k == ItGetKey(World, Iter, "tx3")
                  v == IterValue[NearestHolder(k)]
              IN  /\ ~Hidden(k)
                  /\ k \in MergedKeys(World, "tx3")
                  /\ \A T \in Types :
                        ItGetValue(World, Iter, "tx3", T) = Read(World, "tx3", k, T)
                  /\ ItGetValue(World, Iter, "tx3", v.type) = RetTrue(v.value)

\* the iterator of tx3 stands on its parent leg at a key that tx1 wrote over
\* the adapter's entry, after passing a key that tx2 deleted and tx1 holds
C16_Witness ==
    /\ itTop = "tx3"
    /\ ItValid(World, Iter, "tx3")
    /\ curIsParent["tx3"]
    /\ NearestHolder(parentKey["tx3"]) = "tx1"
    /\ parentKey["tx3"] \in DOMAIN db
    /\ \E k \in deletes["tx2"] :
          /\ k \in DOMAIN writes["tx1"]
          /\ Hidden(k)
          /\ less(k, parentKey["tx3"])
          /\ ~less(k, itFrom)

\* the parent leg of the iterator of overlay j: the adapter's cursor and the
\* fields of the iterators below j, and the key j copied from it
ParentLeg(j) ==
    <<piter, parentKey[j],
      [x \in Chain(j) \ {j} |-> <<transactionIt[x], parentKey[x], curIsParent[x]>>]>>

\* the keys of the parent's view that overlay j does not shadow
Unshadowed(j) ==
    MergedKeys(World, Parent[j]) \ ((DOMAIN writes[j]) \cup deletes[j])

\* C28: a Next on a valid merge iterator whose transaction leg is current
\* moves that leg to the next write-set key and leaves the parent leg as it
\* is; a Next whose parent leg is current leaves the transaction leg as it is
\* and moves the parent leg to the next key of the parent's view that the
\* overlay does not shadow, or to its end when there is none.
C28_NextMovesCurrentLegOnly ==
    [][(last'.op = "Next" /\ itTop # NoIter /\ ItValid(World, Iter, itTop)) =>
          LET j == itTop
          IN  /\ ~curIsParent[j] =>
                    /\ transactionIt'[j] = KeyAfter(DOMAIN writes[j], transactionIt[j])
                    /\ ParentLeg(j)' = ParentLeg(j)
              /\ curIsParent[j] =>
                    /\ transactionIt'[j] = transactionIt[j]
                    /\ ParentValid(World', Iter', j) <=>
                          KeyAfter(Unshadowed(j), parentKey[j]) # End
                    /\ ParentValid(World', Iter', j) =>
                          /\ parentKey'[j] = KeyAfter(Unshadowed(j), parentKey[j])
                          /\ ParentGetKey(World', Iter', j) = parentKey'[j]]_vars

\* Next has moved the parent leg of tx2 from (1) over (1,2), which tx2 deleted,
\* and over (2), which tx2 wrote again, to its end, while the transaction leg
\* of tx2 stayed at (2)
C28_Witness ==
    /\ itTop = "tx2"
    /\ last.op = "Next"
    /\ yielded = <<(<<1>>), (<<2>>)>>
    /\ <<1>> \notin DOMAIN writes["tx2"]
    /\ transactionIt["tx2"] = <<2>>
    /\ <<1, 2>> \in MergedKeys(World, "tx1") \cap deletes["tx2"]
    /\ <<2>> \in MergedKeys(World, "tx1")
    /\ ~ParentValid(World, Iter, "tx2")

\* C29: over a stable overlay, after every SeekToFirst, Seek and Next, in
\* the iterator of every overlay of the chain that is valid, the leg that
\* curIsParent names has an entry left and its key is less than the key of the
\* other leg when that leg has one; no assert of Next has failed, and GetKey
\* gives a key of the merged view.
C29_CurrentLegHasEntry ==
    Positioned =>
        /\ ~assertFailed
        /\ \A j \in Chain(itTop) :
              ItValid(World, Iter, j) =>
                  /\ curIsParent[j] =>
                        /\ ParentValid(World, Iter, j)
                        /\ transactionIt[j] # End => less(parentKey[j], transactionIt[j])
                  /\ ~curIsParent[j] =>
                        /\ transactionIt[j] # End
                        /\ ParentValid(World, Iter, j) =>
                              less(transactionIt[j], parentKey[j])
                  /\ ItGetKey(World, Iter, j) \in MergedKeys(World, j)

\* Next has left the transaction leg of tx2 at its end: the parent leg is
\* current and has an entry, after the transaction leg had been current
C29_Witness ==
    /\ itTop = "tx2"
    /\ last.op = "Next"
    /\ transactionIt["tx2"] = End
    /\ curIsParent["tx2"]
    /\ ParentValid(World, Iter, "tx2")
    /\ Len(yielded) >= 2
    /\ yielded[Len(yielded) - 1] \in DOMAIN writes["tx2"]
    /\ ~assertFailed

\* the positions and the flag of the iterator of every overlay of the chain
Legs == <<transactionIt, parentKey, curIsParent, piter>>

\* C30: when the iterator is not valid, GetKey(K&) and GetValue return false
\* and GetKey() returns an empty key; a Next on it leaves both leg positions
\* and the current flag as they were, fails no assert, and the iterator is
\* still not valid after it.
C30_InvalidIteratorIsInert ==
    /\ [](itTop # NoIter /\ ~ItValid(World, Iter, itTop) =>
             /\ ItGetKey(World, Iter, itTop) = NoKey
             /\ \A T \in Types :
                   /\ ItGetKeyTyped(World, Iter, itTop, T) = RetFalse
                   /\ ItGetValue(World, Iter, itTop, T) = RetFalse)
    /\ [][(itTop # NoIter /\ ~ItValid(World, Iter, itTop) /\ last'.op = "Next") =>
             /\ Legs' = Legs
             /\ assertFailed' = assertFailed
             /\ yielded' = yielded
             /\ ~ItValid(World, Iter, itTop)']_vars

\* Next was called on the iterator of tx2 after a traversal had run off the
\* end of a merged view with entries of both legs: it is still not valid, no
\* assert has failed, and the transaction leg is at its end
C30_Witness ==
    /\ itTop = "tx2"
    /\ last.op = "Next"
    /\ last.k = NoKey
    /\ ~ItValid(World, Iter, "tx2")
    /\ ~assertFailed
    /\ Len(yielded) >= 2
    /\ \E n \in 1..Len(yielded) : yielded[n] \in DOMAIN writes["tx2"]
    /\ \E n \in 1..Len(yielded) : yielded[n] \notin DOMAIN writes["tx2"]
    /\ transactionIt["tx2"] = End
    /\ ItGetKeyTyped(World, Iter, "tx2", "uint8_t") = RetFalse

-----------------------------------------------------------------------------
(* Properties of the adapter *)

\* what decoding the bytes b as a T gives a reader
Decoded(T, b) ==
    IF Unserialize(T, b).ok THEN RetTrue(Unserialize(T, b).value) ELSE RetFalse

\* the result that last records
Result == [ret |-> last.ret, value |-> last.v.value]

\* C21: a value that serializes to the bytes v is stored under its key as it
\* is, as v XOR the obfuscation key repeated (as v itself when the key is
\* all-zero); the read made next for that key gives v back on every read
\* path: ReadDataStream gives v, Read<T> and CDBIterator::GetValue<T> give v
\* decoded as a T.
C21_ObfuscationRoundTrip ==
    [][/\ last'.op = "Store" =>
             /\ last'.k \in DOMAIN db'
             /\ Len(db'[last'.k]) = Len(last'.v.value)
             /\ \A n \in 1..Len(last'.v.value) :
                   db'[last'.k][n] =
                       BitXor(last'.v.value[n],
                              obfuscate_key[((n - 1) % Len(obfuscate_key)) + 1])
             /\ (\A n \in 1..Len(obfuscate_key) : obfuscate_key[n] = 0) =>
                   db'[last'.k] = last'.v.value
       /\ (last.op = "Store" /\ last'.k = last.k) =>
             /\ last'.op = "ReadDataStream" => Result' = RetTrue(last.v.value)
             /\ (last'.op = "Read" /\ last'.i = DB) =>
                   Result' = Decoded(last'.v.type, last.v.value)
             /\ last'.op = "GetValue" =>
                   Result' = Decoded(last'.v.type, last.v.value)]_vars

\* a three-byte value stored under a two-byte key that is not all-zero has
\* been read back through the adapter's iterator as a uint16_t
C21_Witness ==
    /\ last.op = "GetValue"
    /\ last.v.type = "uint16_t"
    /\ last.ret = "true"
    /\ last.v.value = 513
    /\ obfuscate_key = <<165, 90>>
    /\ last.k \in DOMAIN db
    /\ db[last.k] = <<164, 88, 166>>

\* the bytes operator>> needs for a T
Width(T) == IF T = "uint8_t" THEN 1 ELSE 2

\* C22: db.Read<T>(k) returns false when k is absent and when the stored
\* value is too short to decode as a T; it never throws and never changes the
\* store; tx1.Read<T>(k) for a key with no pending entry in tx1 returns what
\* db.Read<T>(k) returns, so false in both cases, and changes nothing either.
C22_DecodeFailureIsNotFound ==
    [][/\ (last'.op = "Read" /\ last'.i = DB) =>
             /\ last'.k \notin DOMAIN db => last'.ret = "false"
             /\ (last'.k \in DOMAIN db /\ Len(db[last'.k]) < Width(last'.v.type)) =>
                   last'.ret = "false"
             /\ last'.ret # "throw"
             /\ db' = db
       /\ \A i \in Layers :
             (/\ last'.op = "Read" /\ last'.i = i
              /\ last'.k \notin DOMAIN writes[i]
              /\ last'.k \notin deletes[i]) =>
                 /\ Result' = DbRead(db, last'.k, last'.v.type)
                 /\ (last'.k \notin DOMAIN db \/ Len(db[last'.k]) < Width(last'.v.type)) =>
                       last'.ret = "false"
                 /\ db' = db
                 /\ writes' = writes /\ deletes' = deletes /\ memoryUsage' = memoryUsage]_vars

\* tx1.Read<uint16_t> has returned false for a key the adapter holds with a
\* single byte, tx1 having a pending delete of another key only
C22_Witness ==
    /\ last.op = "Read"
    /\ last.i = "tx1"
    /\ last.v.type = "uint16_t"
    /\ last.ret = "false"
    /\ last.k \in DOMAIN db
    /\ Len(db[last.k]) = 1
    /\ deletes["tx1"] # {}
    /\ last.k \notin deletes["tx1"]

-----------------------------------------------------------------------------
(* Properties of a traversal *)

\* the merged entries at or after the position the traversal was started at
Remaining == FromKey(MergedKeys(World, itTop), itFrom)

\* the keys of the parent's view that overlay j shadows, from key k on
\* (from the first key on when k is the empty key)
ShadowedFrom(j, k) ==
    {x \in MergedKeys(World, Parent[j]) :
        /\ ~less(x, k)
        /\ x \in deletes[j] \cup DOMAIN writes[j]}

\* on a step, the parent steps of the skip loop that the seek or the Next ran
\* are no more than the shadowed parent keys ahead of where it started
SkipLoopBounded ==
    /\ last'.op = "SeekToFirst" =>
           SkipSteps(World, ParentSeekToFirst(World, Iter, itTop), itTop)
               <= Cardinality(ShadowedFrom(itTop, NoKey))
    /\ last'.op = "Seek" =>
           SkipSteps(World, ParentSeek(World, Iter, itTop, last'.k), itTop)
               <= Cardinality(ShadowedFrom(itTop, last'.k))
    /\ (last'.op = "Next" /\ curIsParent[itTop]) =>
           SkipSteps(World, ParentNext(World, Iter, itTop), itTop)
               <= Cardinality(ShadowedFrom(itTop, parentKey[itTop]))

\* C31: over a stable overlay a traversal started with SeekToFirst or Seek
\* terminates.  The skip loop run by the seek and by each Next makes no more
\* parent steps than there are shadowed parent keys ahead of it; while the
\* iterator is valid fewer Next calls have been made than there are merged
\* entries at or after the start; when it is not valid exactly that many
\* have been made; and the loop does reach Valid() == false.
C31_TraversalTerminates ==
    /\ [](Positioned =>
             /\ ItValid(World, Iter, itTop) => nextCalls < Len(Remaining)
             /\ ~ItValid(World, Iter, itTop) => nextCalls = Len(Remaining))
    /\ [][SkipLoopBounded]_vars
    /\ (Positioned ~> (Positioned /\ ~ItValid(World, Iter, itTop)))

\* a traversal of tx2 from its first entry has ended after two Next calls,
\* on entries of both legs, and the overlay shadows keys of its parent that
\* the skip loop had to pass
C31_Witness ==
    /\ itTop = "tx2"
    /\ last.op = "Next"
    /\ itFrom = NoKey
    /\ ~ItValid(World, Iter, "tx2")
    /\ nextCalls = 2
    /\ Len(yielded) = 2
    /\ yielded[1] \in DOMAIN writes["tx2"]
    /\ yielded[2] \notin DOMAIN writes["tx2"]
    /\ deletes["tx2"] \cap MergedKeys(World, "tx1") # {}

-----------------------------------------------------------------------------
(* Properties of CFlatDB *)

\* the read results after which the file is left for the user to repair
Refused == {"HashReadError", "IncorrectHash", "IncorrectMagicMessage"}
\* the read results after which the file is written anew
Recreated == {"Ok", "FileError", "IncorrectFormat"}

\* the result recorded is one Read can give for the file as it was
ReadGave(fDryRun, obj) ==
    last'.v.value \in {r.result : r \in CFlatDB_Read(file, obj, fDryRun)}

-----------------------------------------------------------------------------
(* Properties of concurrent readers *)

\* the first reader's iterator and what it collected
It1 == <<itTop, transactionIt, parentKey, curIsParent, piter, assertFailed, itFrom, yielded>>

\* y is what a traversal of overlay j from SeekToFirst collects when it runs
\* alone: the merged view of j in ascending order, all of it once the
\* iterator is not valid any more
AsAlone(j, y, valid) ==
    LET all == SortKeys(MergedKeys(World, j))
    IN  /\ Len(y) <= Len(all)
        /\ \A n \in 1..Len(y) : y[n] = all[n]
        /\ ~valid => y = all

\* C23: with readers only, under every interleaving of their calls: no call
\* changes a write-set, a delete-set, a counter or the adapter; a call of one
\* reader leaves the other reader's iterator as it was; and every reader gets
\* what it would get alone: a traversal the merged view in order, Exists
\* whether the key is in the merged view, GetMemoryUsage the sum of the
\* pending entries, Read the value of the stable world.
C23_ReadersDoNotInterfere ==
    [][/\ writes' = writes /\ deletes' = deletes /\ memoryUsage' = memoryUsage
       /\ db' = db /\ batch' = batch
       /\ last'.op \notin {"NewIterator", "SeekToFirst", "Next"} => It1' = It1
       /\ last'.op \notin {"NewIterator2", "SeekToFirst2", "Next2"} => it2' = it2
       /\ (itTop' # NoIter /\ itFrom' = NoKey) =>
             AsAlone(itTop', yielded', ItValid(World', Iter', itTop'))
       /\ (it2'.top # NoIter /\ it2'.from = NoKey) =>
             AsAlone(it2'.top, it2'.yielded, ItValid(World', it2'.it, it2'.top))
       /\ last'.op = "Exists" =>
             (last'.ret = "true" <=> last'.k \in MergedKeys(World, last'.i))
       /\ last'.op = "GetMemoryUsage" => last'.v.value = ExpectedUsage(last'.i)
       /\ last'.op = "Read" =>
             Result' = Read(World, last'.i, last'.k, last'.v.type)]_vars

\* both readers are in the middle of their traversals of tx2, at different
\* entries, while a third reader has just read a key through tx2 from tx1
C23_Witness ==
    /\ itTop = "tx2"
    /\ it2.top = "tx2"
    /\ Len(yielded) = 1
    /\ Len(it2.yielded) = 2
    /\ ItValid(World, Iter, "tx2")
    /\ ItValid(World, it2.it, "tx2")
    /\ last.op = "Read"
    /\ last.i = "tx2"
    /\ last.ret = "true"
    /\ last.k \notin DOMAIN writes["tx2"]
    /\ last.k \in DOMAIN writes["tx1"]

\* the values of the signed counter
Counters == (0 - MaxCounter)..MaxCounter

\* C24: GetMemoryUsage returns 0 for a negative counter and the counter's
\* value otherwise, so never a negative number, for every value of the
\* counter of either overlay; a call returns that for the counter the overlay
\* has, and changes neither the sets nor the counter.
C24_UsageClampedAtZero ==
    [][/\ \A i \in Layers : \A c \in Counters :
             LET g == GetMemoryUsage([World EXCEPT !.memoryUsage[i] = c], i)
             IN  /\ g >= 0
                 /\ c < 0 => g = 0
                 /\ c >= 0 => g = c
       /\ \A i \in Layers :
             (last'.op = "GetMemoryUsage" /\ last'.i = i) =>
                 /\ last'.v.value = IF memoryUsage[i] < 0 THEN 0 ELSE memoryUsage[i]
                 /\ last'.v.value >= 0
                 /\ writes' = writes
                 /\ deletes' = deletes
                 /\ memoryUsage' = memoryUsage]_vars

\* tx2.GetMemoryUsage() has returned the counter of tx2, which stands for a
\* pending write and a pending delete
C24_Witness ==
    /\ last.op = "GetMemoryUsage"
    /\ last.i = "tx2"
    /\ last.v.value = memoryUsage["tx2"]
    /\ memoryUsage["tx2"] > 0
    /\ writes["tx2"] # EmptyMap
    /\ deletes["tx2"] # {}

=============================================================================
